---------------------------- MODULE Spec2Model ----------------------------
(***************************************************************************)
(* node-simple-socket: two SimpleSocket endpoints (a Client and a Server)  *)
(* wrapped around the two directions of one TCP connection.                *)
(*                                                                         *)
(* Every call of read(), write() or makeHandshakeIfNeeded() is a record in *)
(* calls[e]; its pc is the callback the call is waiting in.  One action is *)
(* one callback of src/index.ts.  The bytes on the stream carry a ghost    *)
(* tag (the call that wrote them and the part of the protocol they are),   *)
(* which no action reads to decide anything.  writeStream() and            *)
(* readStream() are records in calls[e] as well, and so is every write()   *)
(* and read() they make.                                                   *)
(***************************************************************************)
EXTENDS Integers, Sequences, FiniteSets, TLC

VARIABLES
    cfg,       \* cfg[e]: the endpoint's _type and maxPackageSize fields
    emitter,   \* emitter[e]: the listeners of 'disposed' and where dispose() is
    password,  \* password[e]: <<>> when absent (undefined/null), <<pwd>> when set
    wire,      \* wire[e]: bytes sent by the peer and not yet read by e, in order
    ended,     \* ended[e]: e called socket.end(), its writing side is closed
    calls,     \* calls[e]: every call made on e, in the order the calls were made
    sent,      \* sent[e][p]: ghost, the bytes of handshake part p that e has written
    rcvd       \* rcvd[e][p]: ghost, the bytes of handshake part p that e has read

vars == <<cfg, emitter, password, wire, ended, calls, sent, rcvd>>

Endpoints == {"c", "s"}

Peer(e) == IF e = "c" THEN "s" ELSE "c"

None == <<>>

Some(x) == <<x>>

-----------------------------------------------------------------------------
(* Bounds of the model.                                                    *)

\* calls made on one endpoint in one behaviour
MaxCalls == 2

\* calls made on one endpoint where every kind of datagram is tried
MaxCallsSingle == 1

\* calls in progress at the same time on one endpoint, concurrent use
MaxInFlight == 2

\* values of the maxPackageSize field
MaxPackageSizes == {2, 5}

\* buffers handed to write()
Payloads == {<<>>, <<1, 2>>, <<7, 7, 7, 7, 7>>}

\* values of Math.floor(Math.random() * 128)
PadChoices == {0, 127}

\* what the password generator returns
PasswordChoices == {<<11>>, <<21, 22, 23>>}

\* what a run of the password generator ends with
GeneratorOutcomes ==
    [error : {FALSE}, pwd : PasswordChoices] \cup {[error |-> TRUE, pwd |-> <<>>]}

\* the dataTransformer field: absent, or a hook adding 1 to every byte
Transformers == {"none", "inc"}

\* the compress field: undefined, true or false
CompressChoices == {"undefined", "true", "false"}

\* the PEM text of the client's public key, as bytes
PublicKeyPEM == <<45, 45, 45>>

-----------------------------------------------------------------------------
(* Buffers.                                                                *)

RECURSIVE SumSeq(_)
SumSeq(s) == IF s = <<>> THEN 0 ELSE s[1] + SumSeq(Tail(s))

\* Math.min
Min(a, b) == IF a < b THEN a ELSE b

Take(s, k) == SubSeq(s, 1, k)

Drop(s, k) == SubSeq(s, k + 1, Len(s))

\* Buffer.writeUInt32LE / readUInt32LE
writeUInt32LE(n) ==
    << n % 256, (n \div 256) % 256, (n \div 65536) % 256, (n \div 16777216) % 256 >>

\* (a value of 2^31 or more is read as 2^31 - 1, the largest integer of the
\* model checker; both are above every maxPackageSize of the model)
readUInt32LE(b) ==
    IF b[4] > 127 THEN 2147483647
    ELSE b[1] + 256 * b[2] + 65536 * b[3] + 16777216 * b[4]

\* Buffer.writeUInt16LE / readUInt16LE
writeUInt16LE(n) == << n % 256, (n \div 256) % 256 >>

readUInt16LE(b) == b[1] + 256 * b[2]

\* ghost tags of the bytes a socket.write call puts on the stream: the call i
\* that wrote them, the part of the protocol they are and, on the length of a
\* datagram, what write() was called with
Tag(bytes, i, part, B, tf) ==
    [k \in 1..Len(bytes) |-> [v |-> bytes[k], w |-> i, p |-> part, B |-> B, tf |-> tf]]

Vals(tagged) == [k \in 1..Len(tagged) |-> tagged[k].v]

\* the parts of the two handshake frames: key length, key, password length, password
HandshakeParts == {"klen", "key", "plen", "pwd"}

NothingYet == [p \in HandshakeParts |-> 0]

\* ghost: count the handshake bytes among the tagged bytes
Count(counts, tagged) ==
    [p \in HandshakeParts |->
        counts[p] + Cardinality({k \in 1..Len(tagged) : tagged[k].p = p})]

-----------------------------------------------------------------------------
(* zlib, crypto and the transformer hooks.                                 *)

\* length of the run of equal bytes s starts with
RECURSIVE RunLength(_)
RunLength(s) ==
    IF Len(s) < 2 \/ s[2] # s[1] THEN 1 ELSE 1 + RunLength(Tail(s))

\* ZLib.gzip: a lossless code that shortens some inputs and lengthens others
\* and is never empty (here: <<count, byte>> per run, then a closing 0)
RECURSIVE gzip(_)
gzip(s) ==
    IF s = <<>> THEN <<0>>
    ELSE LET r == RunLength(s) IN <<r, s[1]>> \o gzip(Drop(s, r))

\* ZLib.gunzip fails on what is no gzip output
RECURSIVE gunzipOk(_)
gunzipOk(z) ==
    \/ z = <<0>>
    \/ /\ Len(z) >= 2
       /\ z[1] >= 1
       /\ gunzipOk(Drop(z, 2))

RECURSIVE gunzip(_)
gunzip(z) ==
    IF Len(z) < 2 THEN <<>>
    ELSE [k \in 1..z[1] |-> z[2]] \o gunzip(Drop(z, 2))

\* the key Crypto.createCipher derives from the password
KeyOf(pwd) == (7 * SumSeq(pwd) + 3 * Len(pwd)) % 256

\* aes-256-ctr: a key stream combined with the data byte by byte
KeyStream(pwd, k) == (KeyOf(pwd) + 13 * k) % 256

\* a cipher whose final() adds a byte to the output
createCipherPadding(pwd, data) ==
    [k \in 1..Len(data) |-> (data[k] + KeyStream(pwd, k)) % 256] \o <<0>>

createCipher(pwd, data) ==
    [k \in 1..Len(data) |-> (data[k] + KeyStream(pwd, k)) % 256]

createDecipher(pwd, data) ==
    [k \in 1..Len(data) |-> (data[k] + 256 - KeyStream(pwd, k)) % 256]

\* asDataTransformerPromise: an absent hook is the identity
asDataTransformerPromise(tf, direction, data) ==
    IF tf = "inc"
    THEN IF direction = "Transform"
         THEN [k \in 1..Len(data) |-> (data[k] + 1) % 256]
         ELSE [k \in 1..Len(data) |-> (data[k] + 255) % 256]
    ELSE data

\* a tryCompress that takes the gzip output only when it is shorter
tryCompressIfShorter(cmp, gzipFails, data) ==
    IF cmp = "false" THEN [data |-> data, isCompressed |-> FALSE, gz |-> "no"]
    ELSE IF gzipFails THEN [data |-> data, isCompressed |-> FALSE, gz |-> "failed"]
    ELSE IF Len(gzip(data)) < Len(data)
         THEN [data |-> gzip(data), isCompressed |-> TRUE, gz |-> "ok"]
         ELSE [data |-> data, isCompressed |-> FALSE, gz |-> "ok"]

\* tryCompress: the buffer to send, whether it is gzip output, and what became
\* of ZLib.gzip: not called ("no"), result.compressed set ("ok"), result.error
\* set ("failed")
tryCompress(cmp, gzipFails, data) ==
    IF cmp = "false" THEN [data |-> data, isCompressed |-> FALSE, gz |-> "no"]
    ELSE IF gzipFails THEN [data |-> data, isCompressed |-> FALSE, gz |-> "failed"]
    ELSE IF Len(gzip(data)) < Len(data) \/ cmp = "true"
         THEN [data |-> gzip(data), isCompressed |-> TRUE, gz |-> "ok"]
         ELSE [data |-> data, isCompressed |-> FALSE, gz |-> "ok"]

\* getMaxPackageSize
getMaxPackageSize(e) == cfg[e].maxPackageSize

\* readSocket: how many bytes socket.read(n) hands out; 0 when it returns null
\* and the call waits for 'readable'.  After the peer's end, what is left.
readSocket(e, n) ==
    IF n > 0 /\ Len(wire[e]) >= n THEN n
    ELSE IF n > 0 /\ ended[Peer(e)] /\ Len(wire[e]) > 0 THEN Len(wire[e])
    ELSE 0


-----------------------------------------------------------------------------
(* Calls.                                                                  *)

NoResult == [st |-> "pending", v |-> <<>>]

\* ghost: where the bytes of a settled read() came from
NoSource == [w |-> 0, whole |-> FALSE, mixed |-> FALSE, B |-> <<>>, tf |-> "none", L |-> 0]

\* w is the peer's write() whose length bytes these 4 bytes are, 0 if they are
\* anything else; whole says that the data bytes are that write()'s data;
\* mixed says that data bytes of a frame are among the 4 bytes
Source(hdr, data) ==
    IF /\ Len(hdr) = 4
       /\ \A k \in 1..4 : hdr[k].p = "len" /\ hdr[k].w = hdr[1].w
    THEN [w |-> hdr[1].w,
          whole |-> /\ Len(data) = readUInt32LE(Vals(hdr))
                    /\ \A k \in 1..Len(data) : data[k].p = "data" /\ data[k].w = hdr[1].w,
          mixed |-> FALSE,
          B |-> hdr[1].B, tf |-> hdr[1].tf, L |-> readUInt32LE(Vals(hdr))]
    ELSE [NoSource EXCEPT !.mixed = \E k \in 1..Len(hdr) : hdr[k].p = "data"]

\* me.emit(name, arg): what the listeners of the event are called with
Event(name, arg) == [name |-> name, arg |-> arg]

\* a call that was just made; ghost, on a write(): the compress property at
\* the call (cmp) and what became of ZLib.gzip (gz); the events emitted in the
\* handshake that the call runs, in their order (emitted)
NewCall(kind, B, tf, data, isCompressed) ==
    [kind |-> kind, pc |-> "new", B |-> B, tf |-> tf,
     data |-> data, isCompressed |-> isCompressed,
     hbuf |-> <<>>, n |-> 0, pwd |-> None, got |-> <<>>, src |-> NoSource,
     cmp |-> "undefined", gz |-> "no", emitted |-> <<>>,
     hs |-> "no", res |-> NoResult]

InFlight(e) == {i \in 1..Len(calls[e]) : calls[e][i].pc \notin {"done", "past"}}

\* the promise of the call settles: st is "ok" (resolved with v), "null"
\* (resolved with null), "err" (rejected) or "hserr" (rejected by the handshake)
Settle(call, st, v) ==
    [call EXCEPT !.pc = "done", !.res = [st |-> st, v |-> v],
                 !.data = <<>>, !.hbuf = <<>>, !.n = 0, !.pwd = None, !.got = <<>>,
                 !.cmp = "undefined", !.gz = IF call.gz = "failed" THEN "failed" ELSE "no"]

\* ghost: of the calls that settled before the latest one was made, the kind,
\* the handshake they ran and how they settled are kept
Archive(cs) ==
    [i \in 1..Len(cs) |->
        IF cs[i].pc \in {"done", "past"}
        THEN [cs[i] EXCEPT !.pc = "past", !.B = <<>>, !.tf = "none", !.isCompressed = FALSE,
                           !.gz = "no", !.emitted = <<>>, !.src = NoSource,
                           !.res = [st |-> cs[i].res.st, v |-> <<>>]]
        ELSE cs[i]]

\* the continuation of makeHandshakeIfNeeded().then in read(), in write() and
\* in a caller of makeHandshakeIfNeeded() itself
Continue(call, pwd) ==
    IF call.kind = "hs"
    THEN IF pwd = None THEN Settle(call, "null", <<>>)
                       ELSE Settle(call, "ok", pwd[1])
    ELSE [call EXCEPT !.pc = IF call.kind = "read" THEN "r_len" ELSE "w_len",
                      !.pwd = pwd, !.n = 0]

\* makeClientHandshake begins: the RSA key pair is generated
makeClientHandshake(call) ==
    [call EXCEPT !.pc = "hc_wlen", !.hs = "run",
                 !.emitted = @ \o <<Event("rsakey.generating", None),
                                    Event("rsakey.generated", None)>>]

\* makeServerHandshake begins: it reads the size of the public key
makeServerHandshake(call) == [call EXCEPT !.pc = "hs_rlen", !.hs = "run"]

\* a makeHandshakeIfNeeded that does not look at the password
makeHandshakeAlways(e, call) ==
    IF cfg[e].type = "Server" THEN makeServerHandshake(call)
    ELSE IF cfg[e].type = "Client" THEN makeClientHandshake(call)
    ELSE [Settle(call, "hserr", <<>>) EXCEPT !.hs = "fail"]

\* a makeHandshakeIfNeeded that takes every endpoint that is not a server for
\* a client
makeHandshakeIfNeededAsClient(e, call) ==
    IF password[e] # None THEN Continue(call, password[e])
    ELSE IF cfg[e].type = "Server" THEN makeServerHandshake(call)
    ELSE makeClientHandshake(call)

\* makeHandshakeIfNeeded, the first thing read() and write() wait for: the
\* password is there, or the handshake of the endpoint's type begins
makeHandshakeIfNeeded(e, call) ==
    IF password[e] # None THEN Continue(call, password[e])
    ELSE IF cfg[e].type = "Server" THEN makeServerHandshake(call)
    ELSE IF cfg[e].type = "Client" THEN makeClientHandshake(call)
    ELSE [Settle(call, "hserr", <<>>) EXCEPT !.hs = "fail"]

\* call i of e is at the callback pc
At(e, i, pc) == i <= Len(calls[e]) /\ calls[e][i].pc = pc

SetCall(e, i, call) == calls' = [calls EXCEPT ![e][i] = call]

\* a socket.write that throws away what the endpoint has not read yet
SocketWriteFlushing(e, i, bytes, part) ==
    LET tagged == IF part = "len"
                  THEN Tag(bytes, i, part, calls[e][i].B, calls[e][i].tf)
                  ELSE Tag(bytes, i, part, <<>>, "none")
    IN /\ wire' = [wire EXCEPT ![Peer(e)] = @ \o tagged, ![e] = <<>>]
       /\ sent' = [sent EXCEPT ![e] = Count(@, tagged)]

\* socket.write(bytes) by call i of e: the bytes reach the peer in order
SocketWrite(e, i, bytes, part) ==
    LET tagged == IF part = "len"
                  THEN Tag(bytes, i, part, calls[e][i].B, calls[e][i].tf)
                  ELSE Tag(bytes, i, part, <<>>, "none")
    IN /\ wire' = [wire EXCEPT ![Peer(e)] = @ \o tagged]
       /\ sent' = [sent EXCEPT ![e] = Count(@, tagged)]

\* the k bytes that socket.read hands to e leave the stream
SocketRead(e, k) ==
    /\ wire' = [wire EXCEPT ![e] = Drop(@, k)]
    /\ rcvd' = [rcvd EXCEPT ![e] = Count(@, Take(wire[e], k))]

\* the EventEmitter of a new endpoint: no listener of 'disposed' (disposed);
\* dispose() not called (dispose); ghost: the listeners there were when
\* dispose() was called (before) and those 'disposed' was delivered to (called)
NewEmitter == [disposed |-> {}, dispose |-> "no", before |-> {}, called |-> {}]

\* the state after construction: no password, nothing sent
Created(u) ==
    /\ cfg \in [Endpoints -> [type : {"Client", "Server"}, maxPackageSize : u.sizes]]
    /\ emitter = [e \in Endpoints |-> NewEmitter]
    /\ cfg["c"].type = "Client"
    /\ cfg["s"].type = "Server"
    /\ password = [e \in Endpoints |-> None]
    /\ wire = [e \in Endpoints |-> <<>>]
    /\ ended = [e \in Endpoints |-> FALSE]
    /\ calls = [e \in Endpoints |-> <<>>]
    /\ sent = [e \in Endpoints |-> NothingYet]
    /\ rcvd = [e \in Endpoints |-> NothingYet]

-----------------------------------------------------------------------------
(* The calls an application makes.  u says how many calls it makes on an   *)
(* endpoint, how many of them it keeps in progress, which kinds of call it *)
(* makes while another is in progress (alike: also while one of the same   *)
(* kind is), and with what values.                                         *)

MayCall(e, u, kind) ==
    /\ Len(calls[e]) < u.calls
    /\ \/ InFlight(e) = {}
       \/ /\ kind \in u.overlap
          /\ Cardinality(InFlight(e)) < u.inFlight
          /\ u.alike \/ \A j \in InFlight(e) : calls[e][j].kind # kind

\* a write() that takes an empty buffer for no data: noDataSend()
writeNothingWhenEmpty(e, u, B, tf, cmp, gzipFails) ==
    /\ MayCall(e, u, "write")
    /\ LET transformed == asDataTransformerPromise(tf, "Transform", B)
           result == tryCompress(cmp, gzipFails, transformed)
           call == [NewCall("write", B, tf, result.data, result.isCompressed)
                    EXCEPT !.cmp = cmp, !.gz = result.gz]
       IN calls' = [calls EXCEPT ![e] =
                       Append(Archive(@),
                              IF transformed = <<>> THEN Settle(call, "null", <<>>)
                              ELSE makeHandshakeIfNeeded(e, call))]
    /\ UNCHANGED <<cfg, emitter, password, wire, ended, sent, rcvd>>

\* write(data): the transformer and tryCompress run before the handshake check
write(e, u, B, tf, cmp, gzipFails) ==
    /\ MayCall(e, u, "write")
    /\ LET transformed == asDataTransformerPromise(tf, "Transform", B)
           result == tryCompress(cmp, gzipFails, transformed)
       IN calls' = [calls EXCEPT ![e] =
                       Append(Archive(@), makeHandshakeIfNeeded(e,
                              [NewCall("write", B, tf, result.data, result.isCompressed)
                               EXCEPT !.cmp = cmp, !.gz = result.gz]))]
    /\ UNCHANGED <<cfg, emitter, password, wire, ended, sent, rcvd>>

\* read()
read(e, u, tf) ==
    /\ MayCall(e, u, "read")
    /\ calls' = [calls EXCEPT ![e] =
                    Append(Archive(@),
                           makeHandshakeIfNeeded(e, NewCall("read", <<>>, tf, <<>>, FALSE)))]
    /\ UNCHANGED <<cfg, emitter, password, wire, ended, sent, rcvd>>

\* a call of makeHandshakeIfNeeded() by the application
handshake(e, u) ==
    /\ MayCall(e, u, "hs")
    /\ calls' = [calls EXCEPT ![e] =
                    Append(Archive(@),
                           makeHandshakeIfNeeded(e, NewCall("hs", <<>>, "none", <<>>, FALSE)))]
    /\ UNCHANGED <<cfg, emitter, password, wire, ended, sent, rcvd>>

-----------------------------------------------------------------------------
(* makeHandshakeIfNeeded, when a handshake ends                            *)

\* makeHandshakeIfNeeded's then-branch: store the password, hand it on
HandshakeResolved(e, i, pwd) ==
    /\ password' = [password EXCEPT ![e] = pwd]
    /\ SetCall(e, i, Continue([calls[e][i] EXCEPT
                                  !.hs = IF pwd = None THEN "null" ELSE "ok",
                                  !.hbuf = <<>>,
                                  !.emitted = Append(@, Event("handshake", pwd))],
                              pwd))

\* makeHandshakeIfNeeded's error branch
HandshakeRejected(e, i) ==
    SetCall(e, i, [Settle(calls[e][i], "hserr", <<>>) EXCEPT !.hs = "fail"])

-----------------------------------------------------------------------------
(* makeClientHandshake                                                     *)

\* the public key went through the handshake transformer: send its length
makeClientHandshake_writeLength(e, i) ==
    /\ At(e, i, "hc_wlen")
    /\ IF ended[e]
       THEN /\ HandshakeRejected(e, i)
            /\ UNCHANGED <<wire, sent>>
       ELSE /\ SocketWrite(e, i, writeUInt32LE(Len(PublicKeyPEM)), "klen")
            /\ SetCall(e, i, [calls[e][i] EXCEPT !.pc = "hc_wkey", !.hbuf = PublicKeyPEM])
    /\ UNCHANGED <<cfg, emitter, password, ended, rcvd>>

\* "now send key"
makeClientHandshake_writeKey(e, i) ==
    /\ At(e, i, "hc_wkey")
    /\ IF ended[e]
       THEN /\ HandshakeRejected(e, i)
            /\ UNCHANGED <<wire, sent>>
       ELSE /\ SocketWrite(e, i, calls[e][i].hbuf, "key")
            /\ SetCall(e, i, [calls[e][i] EXCEPT !.pc = "hc_rlen", !.hbuf = <<>>])
    /\ UNCHANGED <<cfg, emitter, password, ended, rcvd>>

\* "now lets wait for the password, first the length"
makeClientHandshake_readLength(e, i) ==
    /\ At(e, i, "hc_rlen")
    /\ LET k == readSocket(e, 2)
           buff == Vals(Take(wire[e], k))
       IN /\ k > 0
          /\ SocketRead(e, k)
          /\ IF k < 2
             THEN /\ HandshakeRejected(e, i)
                  /\ UNCHANGED <<password, ended>>
             ELSE IF readUInt16LE(buff) <= getMaxPackageSize(e)
             THEN /\ SetCall(e, i, [calls[e][i] EXCEPT !.pc = "hc_rpwd",
                                                      !.n = readUInt16LE(buff)])
                  /\ UNCHANGED <<password, ended>>
             ELSE /\ ended' = [ended EXCEPT ![e] = TRUE]
                  /\ HandshakeResolved(e, i, None)
    /\ UNCHANGED <<cfg, emitter, sent>>

\* a client that keeps all but the last byte that it read
makeClientHandshake_readPasswordShort(e, i) ==
    /\ At(e, i, "hc_rpwd")
    /\ LET k == readSocket(e, calls[e][i].n)
       IN /\ k > 0
          /\ SocketRead(e, k)
          /\ HandshakeResolved(e, i, Some(Vals(Take(wire[e], k - 1))))
    /\ UNCHANGED <<cfg, emitter, ended, sent>>

\* "and now the password itself"
makeClientHandshake_readPassword(e, i) ==
    /\ At(e, i, "hc_rpwd")
    /\ LET k == readSocket(e, calls[e][i].n)
       IN /\ k > 0
          /\ SocketRead(e, k)
          /\ HandshakeResolved(e, i, Some(Vals(Take(wire[e], k))))
    /\ UNCHANGED <<cfg, emitter, ended, sent>>

-----------------------------------------------------------------------------
(* makeServerHandshake                                                     *)

\* "first read size of public key"
makeServerHandshake_readLength(e, i) ==
    /\ At(e, i, "hs_rlen")
    /\ LET k == readSocket(e, 4)
           buff == Vals(Take(wire[e], k))
       IN /\ k > 0
          /\ SocketRead(e, k)
          /\ IF k < 4
             THEN /\ HandshakeRejected(e, i)
                  /\ UNCHANGED <<password, ended>>
             ELSE IF readUInt32LE(buff) <= getMaxPackageSize(e)
             THEN /\ SetCall(e, i, [calls[e][i] EXCEPT !.pc = "hs_rkey",
                                                      !.n = readUInt32LE(buff)])
                  /\ UNCHANGED <<password, ended>>
             ELSE /\ ended' = [ended EXCEPT ![e] = TRUE]
                  /\ HandshakeResolved(e, i, None)
    /\ UNCHANGED <<cfg, emitter, sent>>

\* generatePassword: the generator's buffer, or its error
generatePassword(gen) == IF gen.error THEN None ELSE Some(gen.pwd)

\* the key arrived: parse it, generate the password, send its length
makeServerHandshake_readKey(e, i, gen) ==
    /\ At(e, i, "hs_rkey")
    /\ LET k == readSocket(e, calls[e][i].n)
           buff == Vals(Take(wire[e], k))
           pwd == generatePassword(gen)
           plen == Tag(writeUInt16LE(Len(pwd[1])), i, "plen", <<>>, "none")
           generating == Event("password.generating", None)
           generated == <<generating, Event("password.generated", pwd)>>
       IN /\ k > 0
          /\ rcvd' = [rcvd EXCEPT ![e] = Count(@, Take(wire[e], k))]
          /\ IF buff = PublicKeyPEM /\ pwd # None /\ ~ended[e]
             THEN /\ wire' = [wire EXCEPT ![Peer(e)] = @ \o plen, ![e] = Drop(@, k)]
                  /\ sent' = [sent EXCEPT ![e] = Count(@, plen)]
                  /\ SetCall(e, i, [calls[e][i] EXCEPT !.pc = "hs_wpwd", !.n = 0,
                                                      !.hbuf = pwd[1],
                                                      !.emitted = @ \o generated])
             ELSE /\ wire' = [wire EXCEPT ![e] = Drop(@, k)]
                  /\ SetCall(e, i, [Settle(calls[e][i], "hserr", <<>>)
                                    EXCEPT !.hs = "fail",
                                           !.emitted = IF buff # PublicKeyPEM THEN @
                                                       ELSE IF pwd = None
                                                       THEN Append(@, generating)
                                                       ELSE @ \o generated])
                  /\ UNCHANGED sent
    /\ UNCHANGED <<cfg, emitter, password, ended>>

\* "and now the password itself"
makeServerHandshake_writePassword(e, i) ==
    /\ At(e, i, "hs_wpwd")
    /\ IF ended[e]
       THEN /\ HandshakeRejected(e, i)
            /\ UNCHANGED <<wire, sent, password>>
       ELSE /\ SocketWrite(e, i, calls[e][i].hbuf, "pwd")
            /\ HandshakeResolved(e, i, Some(calls[e][i].hbuf))
    /\ UNCHANGED <<cfg, emitter, ended, rcvd>>

-----------------------------------------------------------------------------
(* write(), after the handshake check                                      *)

\* the flag byte as it was before 2.0: 1 says compressed
FlagByteOld(pad, isCompressed) == IF isCompressed THEN 1 ELSE 0

\* a flag byte whose random part takes all 8 bits
FlagByteWide(pad, isCompressed) == (2 * pad + (IF isCompressed THEN 128 ELSE 0)) % 256

\* the flag byte write() puts in front of the data
FlagByte(pad, isCompressed) == pad + (IF isCompressed THEN 128 ELSE 0)

\* a write() that checks the size after it has sent the length
write_sendLengthUnchecked(e, i, pad) ==
    /\ At(e, i, "w_len")
    /\ LET call == calls[e][i]
           cryptedData ==
               createCipher(call.pwd[1], <<FlagByte(pad, call.isCompressed)>> \o call.data)
       IN IF call.pwd = None \/ ended[e]
          THEN /\ SetCall(e, i, Settle(call, "err", <<>>))
               /\ UNCHANGED <<wire, sent>>
          ELSE /\ SocketWrite(e, i, writeUInt32LE(Len(cryptedData)), "len")
               /\ IF Len(cryptedData) > getMaxPackageSize(e)
                  THEN SetCall(e, i, Settle(call, "null", <<>>))
                  ELSE SetCall(e, i, [call EXCEPT !.pc = "w_data", !.data = cryptedData,
                                                  !.n = Len(cryptedData)])
    /\ UNCHANGED <<cfg, emitter, password, ended, rcvd>>

\* a write() that ends the socket when the ciphertext is too long
write_sendLengthClosing(e, i, pad) ==
    /\ At(e, i, "w_len")
    /\ LET call == calls[e][i]
           cryptedData ==
               createCipher(call.pwd[1], <<FlagByte(pad, call.isCompressed)>> \o call.data)
       IN IF call.pwd = None
          THEN /\ SetCall(e, i, Settle(call, "err", <<>>))
               /\ UNCHANGED <<wire, sent, ended>>
          ELSE IF Len(cryptedData) > getMaxPackageSize(e)
          THEN /\ SetCall(e, i, Settle(call, "null", <<>>))
               /\ ended' = [ended EXCEPT ![e] = TRUE]
               /\ UNCHANGED <<wire, sent>>
          ELSE IF ended[e]
          THEN /\ SetCall(e, i, Settle(call, "err", <<>>))
               /\ UNCHANGED <<wire, sent, ended>>
          ELSE /\ SocketWrite(e, i, writeUInt32LE(Len(cryptedData)), "len")
               /\ SetCall(e, i, [call EXCEPT !.pc = "w_data", !.data = cryptedData,
                                             !.n = Len(cryptedData)])
               /\ UNCHANGED ended
    /\ UNCHANGED <<cfg, emitter, password, rcvd>>

\* a write() that sends only frames shorter than maxPackageSize
write_sendLengthBelowLimit(e, i, pad) ==
    /\ At(e, i, "w_len")
    /\ LET call == calls[e][i]
           cryptedData ==
               createCipher(call.pwd[1], <<FlagByte(pad, call.isCompressed)>> \o call.data)
       IN IF call.pwd = None
          THEN /\ SetCall(e, i, Settle(call, "err", <<>>))
               /\ UNCHANGED <<wire, sent>>
          ELSE IF Len(cryptedData) >= getMaxPackageSize(e)
          THEN /\ SetCall(e, i, Settle(call, "null", <<>>))
               /\ UNCHANGED <<wire, sent>>
          ELSE IF ended[e]
          THEN /\ SetCall(e, i, Settle(call, "err", <<>>))
               /\ UNCHANGED <<wire, sent>>
          ELSE /\ SocketWrite(e, i, writeUInt32LE(Len(cryptedData)), "len")
               /\ SetCall(e, i, [call EXCEPT !.pc = "w_data", !.data = cryptedData,
                                             !.n = Len(cryptedData)])
    /\ UNCHANGED <<cfg, emitter, password, ended, rcvd>>

\* encrypt, check the size, "first send data length"
write_sendLength(e, i, pad) ==
    /\ At(e, i, "w_len")
    /\ LET call == calls[e][i]
           cryptedData ==
               createCipher(call.pwd[1], <<FlagByte(pad, call.isCompressed)>> \o call.data)
       IN IF call.pwd = None
          THEN /\ SetCall(e, i, Settle(call, "err", <<>>))
               /\ UNCHANGED <<wire, sent>>
          ELSE IF Len(cryptedData) > getMaxPackageSize(e)
          THEN /\ SetCall(e, i, Settle(call, "null", <<>>))
               /\ UNCHANGED <<wire, sent>>
          ELSE IF ended[e]
          THEN /\ SetCall(e, i, Settle(call, "err", <<>>))
               /\ UNCHANGED <<wire, sent>>
          ELSE /\ SocketWrite(e, i, writeUInt32LE(Len(cryptedData)), "len")
               /\ SetCall(e, i, [call EXCEPT !.pc = "w_data", !.data = cryptedData,
                                             !.n = Len(cryptedData)])
    /\ UNCHANGED <<cfg, emitter, password, ended, rcvd>>

\* "now the crypted data"; the promise resolves with the transformed buffer
write_sendData(e, i) ==
    /\ At(e, i, "w_data")
    /\ LET call == calls[e][i]
       IN IF ended[e]
          THEN /\ SetCall(e, i, Settle(call, "err", <<>>))
               /\ UNCHANGED <<wire, sent>>
          ELSE /\ SocketWrite(e, i, call.data, "data")
               /\ SetCall(e, i, [Settle(call, "ok",
                                        asDataTransformerPromise(call.tf, "Transform", call.B))
                                 EXCEPT !.n = call.n])
    /\ UNCHANGED <<cfg, emitter, password, ended, rcvd>>

-----------------------------------------------------------------------------
(* read(), after the handshake check                                       *)

\* a read() that skips what has arrived of a frame that is too long
read_lengthSkipping(e, i) ==
    /\ At(e, i, "r_len")
    /\ LET call == calls[e][i]
           k == readSocket(e, 4)
           buff == Vals(Take(wire[e], k))
           dataLength == readUInt32LE(buff)
           src == Source(Take(wire[e], k), <<>>)
       IN /\ k > 0
          /\ IF k < 4
             THEN /\ SocketRead(e, k)
                  /\ SetCall(e, i, [Settle(call, "err", <<>>) EXCEPT !.src = src])
             ELSE IF dataLength > getMaxPackageSize(e)
             THEN /\ SocketRead(e, Len(wire[e]))
                  /\ SetCall(e, i, [Settle(call, "null", <<>>) EXCEPT !.src = src])
             ELSE IF dataLength < 1
             THEN /\ SocketRead(e, k)
                  /\ SetCall(e, i, [Settle(call, "ok", <<>>) EXCEPT !.src = src])
             ELSE /\ SocketRead(e, k)
                  /\ SetCall(e, i, [call EXCEPT !.pc = "r_data", !.n = dataLength,
                                                !.got = Take(wire[e], k)])
    /\ UNCHANGED <<cfg, emitter, password, ended, sent>>

\* the 4 bytes of the length
read_length(e, i) ==
    /\ At(e, i, "r_len")
    /\ LET call == calls[e][i]
           k == readSocket(e, 4)
           buff == Vals(Take(wire[e], k))
           dataLength == readUInt32LE(buff)
           src == Source(Take(wire[e], k), <<>>)
       IN /\ k > 0
          /\ SocketRead(e, k)
          /\ IF k < 4
             THEN SetCall(e, i, [Settle(call, "err", <<>>) EXCEPT !.src = src])
             ELSE IF dataLength > getMaxPackageSize(e)
             THEN SetCall(e, i, [Settle(call, "null", <<>>) EXCEPT !.src = src])
             ELSE IF dataLength < 1
             THEN SetCall(e, i, [Settle(call, "ok", <<>>) EXCEPT !.src = src])
             ELSE SetCall(e, i, [call EXCEPT !.pc = "r_data", !.n = dataLength,
                                             !.got = Take(wire[e], k)])
    /\ UNCHANGED <<cfg, emitter, password, ended, sent>>

\* the crypted data: decrypt, split off the flag byte, gunzip, untransform
\* a read() that leaves the frame in the socket when gunzip fails
read_dataLeavingFrame(e, i) ==
    /\ At(e, i, "r_data")
    /\ LET call == calls[e][i]
           k == readSocket(e, call.n)
           cryptedData == Vals(Take(wire[e], k))
           uncryptedData == createDecipher(call.pwd[1], cryptedData)
           isCompressed == uncryptedData[1] > 127
           compressedData == Tail(uncryptedData)
           src == Source(call.got, Take(wire[e], k))
       IN /\ k > 0
          /\ IF call.pwd = None
             THEN /\ SocketRead(e, k)
                  /\ SetCall(e, i, [Settle(call, "err", <<>>) EXCEPT !.src = src])
             ELSE IF ~isCompressed
             THEN /\ SocketRead(e, k)
                  /\ SetCall(e, i, [Settle(call, "ok",
                                       asDataTransformerPromise(call.tf, "Restore", compressedData))
                                    EXCEPT !.src = src])
             ELSE IF gunzipOk(compressedData)
             THEN /\ SocketRead(e, k)
                  /\ SetCall(e, i, [Settle(call, "ok",
                                       asDataTransformerPromise(call.tf, "Restore",
                                                                gunzip(compressedData)))
                                    EXCEPT !.src = src, !.isCompressed = TRUE])
             ELSE /\ UNCHANGED <<wire, rcvd>>
                  /\ SetCall(e, i, [Settle(call, "err", <<>>)
                                    EXCEPT !.src = src, !.isCompressed = TRUE])
    /\ UNCHANGED <<cfg, emitter, password, ended, sent>>

read_data(e, i) ==
    /\ At(e, i, "r_data")
    /\ LET call == calls[e][i]
           k == readSocket(e, call.n)
           cryptedData == Vals(Take(wire[e], k))
           uncryptedData == createDecipher(call.pwd[1], cryptedData)
           isCompressed == uncryptedData[1] > 127
           compressedData == Tail(uncryptedData)
           src == Source(call.got, Take(wire[e], k))
       IN /\ k > 0
          /\ SocketRead(e, k)
          /\ IF call.pwd = None
             THEN SetCall(e, i, [Settle(call, "err", <<>>) EXCEPT !.src = src])
             ELSE IF ~isCompressed
             THEN SetCall(e, i, [Settle(call, "ok",
                                    asDataTransformerPromise(call.tf, "Restore", compressedData))
                                 EXCEPT !.src = src])
             ELSE IF gunzipOk(compressedData)
             THEN SetCall(e, i, [Settle(call, "ok",
                                    asDataTransformerPromise(call.tf, "Restore",
                                                             gunzip(compressedData)))
                                 EXCEPT !.src = src, !.isCompressed = TRUE])
             ELSE SetCall(e, i, [Settle(call, "err", <<>>)
                                 EXCEPT !.src = src, !.isCompressed = TRUE])
    /\ UNCHANGED <<cfg, emitter, password, ended, sent>>

-----------------------------------------------------------------------------
(* The callbacks of a call in progress.                                    *)

Step(e, i, u) ==
    \/ makeClientHandshake_writeLength(e, i)
    \/ makeClientHandshake_writeKey(e, i)
    \/ makeClientHandshake_readLength(e, i)
    \/ makeClientHandshake_readPassword(e, i)
    \/ makeServerHandshake_readLength(e, i)
    \/ \E gen \in u.generator : makeServerHandshake_readKey(e, i, gen)
    \/ makeServerHandshake_writePassword(e, i)
    \/ \E pad \in u.pads : write_sendLength(e, i, pad)
    \/ write_sendData(e, i)
    \/ read_length(e, i)
    \/ read_data(e, i)

Steps(u) ==
    \E e \in Endpoints, i \in 1..u.calls : Step(e, i, u)

\* what an application does with the two endpoints
Use(u) ==
    \/ \E e \in Endpoints, B \in u.payloads, tf \in u.transformers,
          cmp \in u.compress, gzipFails \in BOOLEAN :
          write(e, u, B, tf, cmp, gzipFails)
    \/ \E e \in Endpoints, tf \in u.transformers : read(e, u, tf)
    \/ \E e \in Endpoints : handshake(e, u)
    \/ Steps(u)

\* several calls in progress on an endpoint at the same time
Concurrent ==
    [calls |-> MaxCalls, inFlight |-> MaxInFlight, overlap |-> {"read", "write", "hs"},
     alike |-> TRUE,
     payloads |-> {<<1, 2>>}, transformers |-> {"none"}, compress |-> {"false"}, pads |-> {0},
     sizes |-> {5}, generator |-> [error : {FALSE}, pwd : PasswordChoices]]

Init == Created(Concurrent)

Next == Use(Concurrent)

Spec == Init /\ [][Next]_vars

\* several read() in progress on an endpoint at the same time, other calls
\* one after the other
ConcurrentReads == [Concurrent EXCEPT !.overlap = {"read"}]

InitReads == Created(ConcurrentReads)

NextReads == Use(ConcurrentReads)

SpecReads == InitReads /\ [][NextReads]_vars

\* a read() and a write() in progress on an endpoint at the same time
ReadWrite == [Concurrent EXCEPT !.overlap = {"read", "write"}, !.alike = FALSE]

InitRW == Created(ReadWrite)

NextRW == Use(ReadWrite)

SpecRW == InitRW /\ [][NextRW]_vars

\* end() without data: me.socket.end() sends the FIN, the promise resolves
end(e) ==
    /\ ~ended[e]
    /\ ended' = [ended EXCEPT ![e] = TRUE]
    /\ UNCHANGED <<cfg, emitter, password, wire, calls, sent, rcvd>>

\* calls made one after the other on endpoints that the application may end
Ending ==
    [calls |-> MaxCalls, inFlight |-> MaxInFlight, overlap |-> {}, alike |-> FALSE,
     payloads |-> {<<1, 2>>}, transformers |-> {"none"}, compress |-> {"false"}, pads |-> {0},
     sizes |-> MaxPackageSizes, generator |-> [error : {FALSE}, pwd : PasswordChoices]]

\* the state after construction with any type: new SimpleSocket(type) takes
\* every number, and parseInt of anything else
CreatedOfAnyType(u) ==
    /\ cfg \in [Endpoints -> [type : {"Client", "Server", "Unknown"}, maxPackageSize : u.sizes]]
    /\ emitter = [e \in Endpoints |-> NewEmitter]
    /\ cfg["c"].type # "Server"
    /\ cfg["s"].type # "Client"
    /\ password = [e \in Endpoints |-> None]
    /\ wire = [e \in Endpoints |-> <<>>]
    /\ ended = [e \in Endpoints |-> FALSE]
    /\ calls = [e \in Endpoints |-> <<>>]
    /\ sent = [e \in Endpoints |-> NothingYet]
    /\ rcvd = [e \in Endpoints |-> NothingYet]

InitAnyType == CreatedOfAnyType(Ending)

NextAnyType == Use(Ending)

SpecAnyType == InitAnyType /\ [][NextAnyType]_vars

\* the functions an application registers as listeners
Listeners == {"f", "g"}

\* socket.on('disposed', listener)
on(e, listener) ==
    /\ listener \notin emitter[e].disposed
    /\ emitter' = [emitter EXCEPT ![e].disposed = @ \cup {listener}]
    /\ UNCHANGED <<cfg, password, wire, ended, calls, sent, rcvd>>

\* dispose(): removeAllListeners(), then end() with no data, which ends the
\* socket; its promise is resolved
dispose(e) ==
    /\ emitter[e].dispose = "no"
    /\ emitter' = [emitter EXCEPT ![e] = [@ EXCEPT !.disposed = {}, !.dispose = "end",
                                                  !.before = emitter[e].disposed]]
    /\ ended' = [ended EXCEPT ![e] = TRUE]
    /\ UNCHANGED <<cfg, password, wire, calls, sent, rcvd>>

\* me.end().then: me.emit('disposed') calls the listeners there are
dispose_ended(e) ==
    /\ emitter[e].dispose = "end"
    /\ emitter' = [emitter EXCEPT ![e] = [@ EXCEPT !.dispose = "done",
                                                  !.called = emitter[e].disposed]]
    /\ UNCHANGED <<cfg, password, wire, ended, calls, sent, rcvd>>

\* an application that registers listeners, makes a call on each endpoint and
\* disposes
Disposing ==
    [Ending EXCEPT !.calls = MaxCallsSingle, !.sizes = {5},
                   !.generator = [error : {FALSE}, pwd : {<<11>>}]]

InitDispose == Created(Disposing)

NextDispose ==
    \/ Use(Disposing)
    \/ \E e \in Endpoints, listener \in Listeners : on(e, listener)
    \/ \E e \in Endpoints : dispose(e)
    \/ \E e \in Endpoints : dispose_ended(e)

SpecDispose == InitDispose /\ [][NextDispose]_vars

InitEnd == Created(Ending)

NextEnd ==
    \/ Use(Ending)
    \/ \E e \in Endpoints : end(e)

SpecEnd == InitEnd /\ [][NextEnd]_vars

\* a call is made on an endpoint after the previous one has settled
Sequential ==
    [calls |-> MaxCalls, inFlight |-> MaxInFlight, overlap |-> {}, alike |-> FALSE,
     payloads |-> {<<1, 2>>, <<7, 7, 7, 7, 7>>}, transformers |-> {"none"}, compress |-> {"undefined", "false"}, pads |-> {0},
     sizes |-> MaxPackageSizes, generator |-> GeneratorOutcomes]

InitSeq == Created(Sequential)

NextSeq == Use(Sequential)

SpecSeq == InitSeq /\ [][NextSeq]_vars

\* one call on each endpoint, every kind of datagram
Single ==
    [calls |-> MaxCallsSingle, inFlight |-> MaxInFlight, overlap |-> {}, alike |-> FALSE,
     payloads |-> Payloads, transformers |-> Transformers, compress |-> CompressChoices, pads |-> PadChoices,
     sizes |-> MaxPackageSizes, generator |-> GeneratorOutcomes]

\* writes of empty buffers, with a maxPackageSize of 1 that the frame of a
\* gzipped empty buffer does not fit
EmptyWrites == [Single EXCEPT !.payloads = {<<>>}, !.sizes = {1, 3}]

InitEmpty == Created(EmptyWrites)

NextEmpty == Use(EmptyWrites)

SpecEmpty == InitEmpty /\ [][NextEmpty]_vars

\* payloads one byte short of maxPackageSize, and as long as it, sent as they
\* are
Boundary ==
    [Single EXCEPT !.payloads = {<<1, 2>>, <<1, 2, 3>>, <<1, 2, 3, 4>>}, !.sizes = {3, 4},
                   !.transformers = {"none"}, !.compress = {"false"}]

InitBoundary == Created(Boundary)

NextBoundary == Use(Boundary)

SpecBoundary == InitBoundary /\ [][NextBoundary]_vars

InitSingle == Created(Single)

NextSingle == Use(Single)

SpecSingle == InitSingle /\ [][NextSingle]_vars

-----------------------------------------------------------------------------
(* writeStream() and readStream(): a file sent in chunks over write() and  *)
(* read(), each chunk answered by a string.  The call records of the two   *)
(* carry, besides the fields of every call: the source as it was opened    *)
(* (F, ghost) and what is left to read of it (file), the bytes counted     *)
(* (count), the bytes written to the target (sink), the chunk in hand      *)
(* (chunk), the message the reader fails with (errMsg) and the write() or  *)
(* read() the call waits for (inner).                                      *)

\* the longest source
MaxFile == 3

\* the length of a SHA-256 digest
DigestLength == 32

FileContent == [k \in 1..MaxFile |-> 4 + k]

Files == {Take(FileContent, n) : n \in 0..MaxFile}

\* Crypto.createHash('sha256').update(chunk).digest()
sha256(chunk) ==
    [k \in 1..DigestLength |-> (31 * SumSeq(chunk) + 7 * Len(chunk) + k) % 256]

\* Buffer.copy into a fresh Buffer.alloc(len): what is there from start on,
\* zeroes for the rest
Copy(block, start, len) ==
    [k \in 1..len |-> IF start + k <= Len(block) THEN block[start + k] ELSE 0]

\* one hexadecimal digit, as its character
HexDigit(d) == IF d < 10 THEN 48 + d ELSE 87 + d

\* Buffer.toString('hex'): two digits a byte
toString_hex(buff) ==
    [k \in 1..2 * Len(buff) |->
        IF k % 2 = 1 THEN HexDigit(buff[(k + 1) \div 2] \div 16)
                     ELSE HexDigit(buff[k \div 2] % 16)]

\* toStringSafe of an Error: '' + err is 'Error: ' + err.message
ErrorToString(message) == <<69>> \o message

\* toStringSafe of the errors of readStream, as bytes
ChunkIsTooBig == ErrorToString(<<1>>)

\* 'Invalid chunk hash: ' + realHash.toString('hex')
InvalidChunkHashMessage(realHash) == <<2>> \o toString_hex(realHash)

InvalidChunkHash(realHash) == ErrorToString(InvalidChunkHashMessage(realHash))

TypeErrorMessage == <<69, 3>>

ReadErrorMessage == <<69, 4>>

\* isEmptyString: nothing but white space
isEmptyString(msg) == \A k \in 1..Len(msg) : msg[k] \in {9, 10, 13, 32}

StreamCall(kind, pc, F, inner) ==
    [NewCall(kind, <<>>, "none", <<>>, FALSE) EXCEPT !.pc = pc]
        @@ [F |-> F, file |-> F, count |-> 0, sink |-> <<>>, chunk |-> <<>>,
            errMsg |-> <<>>, inner |-> inner, maxSize |-> None, remaining |-> None,
            failed |-> FALSE]

\* the promise of a stream call settles
SettleStream(call, st) ==
    [Settle(call, st, <<>>) EXCEPT !.file = <<>>, !.chunk = <<>>, !.errMsg = <<>>, !.inner = 0,
                                   !.remaining = None]

\* the promise of a stream call is rejected with an error of message msg
RejectStream(call, msg) == [SettleStream(call, "err") EXCEPT !.errMsg = msg]

\* 'Remote error: ' + errMsg, as bytes
RemoteError(errMsg) == <<82>> \o errMsg

\* me.write(B) from inside a stream call
InnerWrite(e, B, tf, cmp) ==
    LET transformed == asDataTransformerPromise(tf, "Transform", B)
        result == tryCompress(cmp, FALSE, transformed)
    IN makeHandshakeIfNeeded(e, [NewCall("write", B, tf, result.data, result.isCompressed)
                                 EXCEPT !.cmp = cmp, !.gz = result.gz])

\* me.read() from inside a stream call
InnerRead(e, tf) == makeHandshakeIfNeeded(e, NewCall("read", <<>>, tf, <<>>, FALSE))

\* the stream call i of e goes on as next and starts the call inner
Proceed(e, i, next, inner) ==
    calls' = [calls EXCEPT ![e] =
                 Append(Archive([@ EXCEPT ![i] = [next EXCEPT !.inner = Len(calls[e]) + 1]]),
                        inner)]

\* the call that stream call i of e waits for has settled
InnerSettled(e, i, pc) ==
    /\ At(e, i, pc)
    /\ calls[e][calls[e][i].inner].pc = "done"

\* the promise of the inner call was resolved, not rejected
Resolved(call) == call.res.st \in {"ok", "null"}

\* writeStream(fdSrc, maxSize): parseInt of maxSize is NaN (None) or a number;
\* nextChunk is called
writeStream(e, u, F, maxSize) ==
    /\ MayCall(e, u, "writeStream")
    /\ Len(calls[e]) = 0
    /\ calls' = [calls EXCEPT ![e] =
                    Append(@, [StreamCall("writeStream", "ws_next", F, 0)
                               EXCEPT !.maxSize = maxSize, !.remaining = maxSize])]
    /\ UNCHANGED <<cfg, emitter, password, wire, ended, sent, rcvd>>

\* a writeStream that counts the buffer it read into, not the bytes read
writeStream_nextChunkCountingBuffers(e, i, bufferSize, err, tf, cmp) ==
    /\ At(e, i, "ws_next")
    /\ LET call == calls[e][i]
           remainingBytes == IF call.remaining = None THEN None
                             ELSE IF call.remaining[1] < 1 THEN Some(0)
                             ELSE call.remaining
           bytesToRead == IF remainingBytes = None THEN bufferSize
                          ELSE Min(remainingBytes[1], bufferSize)
           bytesRead == IF bytesToRead > 0 /\ ~err THEN Min(bytesToRead, Len(call.file)) ELSE 0
           chunk == Take(call.file, bytesRead)
           hash == IF Len(chunk) > 0 THEN sha256(chunk) ELSE <<>>
           envelope == writeUInt32LE(Len(chunk)) \o hash \o chunk
       IN Proceed(e, i, [call EXCEPT !.pc = "ws_write",
                                     !.file = Drop(call.file, bytesRead),
                                     !.count = call.count + (IF bytesToRead > 0 THEN bufferSize ELSE 0),
                                     !.remaining = IF remainingBytes = None THEN None
                                                   ELSE Some(remainingBytes[1] - Len(chunk)),
                                     !.failed = call.failed \/ (err /\ bytesToRead > 0),
                                     !.chunk = chunk],
                  InnerWrite(e, envelope, tf, cmp))
    /\ UNCHANGED <<cfg, emitter, password, wire, ended, sent, rcvd>>

\* a writeStream whose FS.read leaves the last byte of the buffer unused
writeStream_nextChunkShortBuffer(e, i, bufferSize, err, tf, cmp) ==
    /\ At(e, i, "ws_next")
    /\ LET call == calls[e][i]
           remainingBytes == IF call.remaining = None THEN None
                             ELSE IF call.remaining[1] < 1 THEN Some(0)
                             ELSE call.remaining
           bytesToRead == IF remainingBytes = None THEN (bufferSize - 1)
                          ELSE Min(remainingBytes[1], (bufferSize - 1))
           bytesRead == IF bytesToRead > 0 /\ ~err THEN Min(bytesToRead, Len(call.file)) ELSE 0
           chunk == Take(call.file, bytesRead)
           hash == IF Len(chunk) > 0 THEN sha256(chunk) ELSE <<>>
           envelope == writeUInt32LE(Len(chunk)) \o hash \o chunk
       IN Proceed(e, i, [call EXCEPT !.pc = "ws_write",
                                     !.file = Drop(call.file, bytesRead),
                                     !.count = call.count + Len(chunk),
                                     !.remaining = IF remainingBytes = None THEN None
                                                   ELSE Some(remainingBytes[1] - Len(chunk)),
                                     !.failed = call.failed \/ (err /\ bytesToRead > 0),
                                     !.chunk = chunk],
                  InnerWrite(e, envelope, tf, cmp))
    /\ UNCHANGED <<cfg, emitter, password, wire, ended, sent, rcvd>>

\* nextChunk, the callback of FS.read, which does not look at its err, and
\* sendChunk up to me.write(envelope)
\* a writeStream that reads a full buffer whatever maxSize says
writeStream_nextChunkUnlimited(e, i, bufferSize, err, tf, cmp) ==
    /\ At(e, i, "ws_next")
    /\ LET call == calls[e][i]
           bytesToRead == bufferSize
           bytesRead == IF bytesToRead > 0 /\ ~err THEN Min(bytesToRead, Len(call.file)) ELSE 0
           chunk == Take(call.file, bytesRead)
           hash == IF Len(chunk) > 0 THEN sha256(chunk) ELSE <<>>
           envelope == writeUInt32LE(Len(chunk)) \o hash \o chunk
       IN Proceed(e, i, [call EXCEPT !.pc = "ws_write",
                                     !.file = Drop(call.file, bytesRead),
                                     !.count = call.count + Len(chunk),
                                     !.remaining = IF call.remaining = None THEN None
                                                   ELSE Some(call.remaining[1] - Len(chunk)),
                                     !.failed = call.failed \/ (err /\ bytesToRead > 0),
                                     !.chunk = chunk],
                  InnerWrite(e, envelope, tf, cmp))
    /\ UNCHANGED <<cfg, emitter, password, wire, ended, sent, rcvd>>

writeStream_nextChunk(e, i, bufferSize, err, tf, cmp) ==
    /\ At(e, i, "ws_next")
    /\ LET call == calls[e][i]
           remainingBytes == IF call.remaining = None THEN None
                             ELSE IF call.remaining[1] < 1 THEN Some(0)
                             ELSE call.remaining
           bytesToRead == IF remainingBytes = None THEN bufferSize
                          ELSE Min(remainingBytes[1], bufferSize)
           bytesRead == IF bytesToRead > 0 /\ ~err THEN Min(bytesToRead, Len(call.file)) ELSE 0
           chunk == Take(call.file, bytesRead)
           hash == IF Len(chunk) > 0 THEN sha256(chunk) ELSE <<>>
           envelope == writeUInt32LE(Len(chunk)) \o hash \o chunk
       IN Proceed(e, i, [call EXCEPT !.pc = "ws_write",
                                     !.file = Drop(call.file, bytesRead),
                                     !.count = call.count + Len(chunk),
                                     !.remaining = IF remainingBytes = None THEN None
                                                   ELSE Some(remainingBytes[1] - Len(chunk)),
                                     !.failed = call.failed \/ (err /\ bytesToRead > 0),
                                     !.chunk = chunk],
                  InnerWrite(e, envelope, tf, cmp))
    /\ UNCHANGED <<cfg, emitter, password, wire, ended, sent, rcvd>>

\* a writeStream that reads the next chunk without waiting for the answer
writeStream_sentNotWaiting(e, i, tf) ==
    /\ InnerSettled(e, i, "ws_write")
    /\ LET call == calls[e][i]
           written == calls[e][call.inner]
       IN IF ~Resolved(written)
          THEN SetCall(e, i, SettleStream(call, "err"))
          ELSE IF Len(call.chunk) > 0
          THEN SetCall(e, i, [call EXCEPT !.pc = "ws_next", !.chunk = <<>>, !.inner = 0])
          ELSE SetCall(e, i, SettleStream(call, "ok"))
    /\ UNCHANGED <<cfg, emitter, password, wire, ended, sent, rcvd>>

\* a writeStream that does not wait for the answer to a chunk of one byte
writeStream_sentNotWaitingForLast(e, i, tf) ==
    /\ InnerSettled(e, i, "ws_write")
    /\ LET call == calls[e][i]
           written == calls[e][call.inner]
       IN IF ~Resolved(written)
          THEN SetCall(e, i, SettleStream(call, "err"))
          ELSE IF Len(call.chunk) > 1
          THEN Proceed(e, i, [call EXCEPT !.pc = "ws_answer"], InnerRead(e, tf))
          ELSE IF Len(call.chunk) > 0
          THEN SetCall(e, i, [call EXCEPT !.pc = "ws_next", !.chunk = <<>>, !.inner = 0])
          ELSE SetCall(e, i, SettleStream(call, "ok"))
    /\ UNCHANGED <<cfg, emitter, password, wire, ended, sent, rcvd>>

\* me.write(envelope).then: wait for the answer to a chunk, finish after the
\* empty chunk
writeStream_sent(e, i, tf) ==
    /\ InnerSettled(e, i, "ws_write")
    /\ LET call == calls[e][i]
           written == calls[e][call.inner]
       IN IF ~Resolved(written)
          THEN SetCall(e, i, SettleStream(call, "err"))
          ELSE IF Len(call.chunk) > 0
          THEN Proceed(e, i, [call EXCEPT !.pc = "ws_answer"], InnerRead(e, tf))
          ELSE SetCall(e, i, SettleStream(call, "ok"))
    /\ UNCHANGED <<cfg, emitter, password, wire, ended, sent, rcvd>>

\* a writeStream that goes on whatever the answer says
writeStream_answeredIgnoring(e, i) ==
    /\ InnerSettled(e, i, "ws_answer")
    /\ LET call == calls[e][i]
           answer == calls[e][call.inner]
       IN IF Resolved(answer)
          THEN SetCall(e, i, [call EXCEPT !.pc = "ws_next", !.chunk = <<>>, !.inner = 0])
          ELSE SetCall(e, i, SettleStream(call, "err"))
    /\ UNCHANGED <<cfg, emitter, password, wire, ended, sent, rcvd>>

\* me.readString().then: an empty answer (or none: null) starts the next
\* FS.read, any other is the remote error
writeStream_answered(e, i) ==
    /\ InnerSettled(e, i, "ws_answer")
    /\ LET call == calls[e][i]
           answer == calls[e][call.inner]
       IN IF Resolved(answer) /\ isEmptyString(answer.res.v)
          THEN SetCall(e, i, [call EXCEPT !.pc = "ws_next", !.chunk = <<>>, !.inner = 0])
          ELSE IF Resolved(answer)
          THEN SetCall(e, i, RejectStream(call, RemoteError(answer.res.v)))
          ELSE SetCall(e, i, SettleStream(call, "err"))
    /\ UNCHANGED <<cfg, emitter, password, wire, ended, sent, rcvd>>

\* readStream(fdTarget): nextChunk calls me.read()
readStream(e, u, tf) ==
    /\ MayCall(e, u, "readStream")
    /\ Len(calls[e]) = 0
    /\ calls' = [calls EXCEPT ![e] =
                    <<StreamCall("readStream", "rs_read", <<>>, 2), InnerRead(e, tf)>>]
    /\ UNCHANGED <<cfg, emitter, password, wire, ended, sent, rcvd>>

\* sendAnswer(err): me.write(errMsg)
sendAnswer(e, i, call, errMsg, tf, cmp) ==
    Proceed(e, i, [call EXCEPT !.pc = "rs_answer", !.chunk = <<>>, !.errMsg = errMsg],
            InnerWrite(e, errMsg, tf, cmp))

\* a readStream that takes a chunk length over the maximum package size for
\* the end of the transfer
readStream_chunkTooBigAsEnd(e, i, tf, cmp) ==
    /\ InnerSettled(e, i, "rs_read")
    /\ LET call == calls[e][i]
           got == calls[e][call.inner]
           chunkBlock == got.res.v
           chunkLength == readUInt32LE(chunkBlock)
           hash == Copy(chunkBlock, 4, DigestLength)
           chunk == Copy(chunkBlock, 4 + DigestLength, chunkLength)
       IN IF ~Resolved(got)
          THEN sendAnswer(e, i, call, ReadErrorMessage, tf, cmp)
          ELSE IF got.res.st = "null" \/ Len(chunkBlock) < 4
          THEN sendAnswer(e, i, call, TypeErrorMessage, tf, cmp)
          ELSE IF chunkLength < 1 \/ chunkLength > getMaxPackageSize(e)
          THEN SetCall(e, i, SettleStream(call, "ok"))
          ELSE IF hash = sha256(chunk)
          THEN SetCall(e, i, [call EXCEPT !.pc = "rs_write", !.chunk = chunk, !.inner = 0])
          ELSE sendAnswer(e, i, call, InvalidChunkHash(sha256(chunk)), tf, cmp)
    /\ UNCHANGED <<cfg, emitter, password, wire, ended, sent, rcvd>>

\* me.read().then: the envelope is taken apart; the chunk goes to FS.write
\* when its hash is right
readStream_chunk(e, i, tf, cmp) ==
    /\ InnerSettled(e, i, "rs_read")
    /\ LET call == calls[e][i]
           got == calls[e][call.inner]
           chunkBlock == got.res.v
           chunkLength == readUInt32LE(chunkBlock)
           hash == Copy(chunkBlock, 4, DigestLength)
           chunk == Copy(chunkBlock, 4 + DigestLength, chunkLength)
       IN IF ~Resolved(got)
          THEN sendAnswer(e, i, call, ReadErrorMessage, tf, cmp)
          ELSE IF got.res.st = "null" \/ Len(chunkBlock) < 4
          THEN sendAnswer(e, i, call, TypeErrorMessage, tf, cmp)
          ELSE IF chunkLength < 1
          THEN SetCall(e, i, SettleStream(call, "ok"))
          ELSE IF chunkLength > getMaxPackageSize(e)
          THEN sendAnswer(e, i, call, ChunkIsTooBig, tf, cmp)
          ELSE IF hash = sha256(chunk)
          THEN SetCall(e, i, [call EXCEPT !.pc = "rs_write", !.chunk = chunk, !.inner = 0])
          ELSE sendAnswer(e, i, call, InvalidChunkHash(sha256(chunk)), tf, cmp)
    /\ UNCHANGED <<cfg, emitter, password, wire, ended, sent, rcvd>>

\* a readStream that puts each chunk in front of what its target holds
readStream_writtenInFront(e, i, tf, cmp) ==
    /\ At(e, i, "rs_write")
    /\ LET call == calls[e][i]
       IN sendAnswer(e, i, [call EXCEPT !.sink = call.chunk \o @,
                                        !.count = @ + Len(call.chunk)],
                     <<>>, tf, cmp)
    /\ UNCHANGED <<cfg, emitter, password, wire, ended, sent, rcvd>>

\* the callback of FS.write: the chunk is in the target, sendAnswer()
readStream_written(e, i, tf, cmp) ==
    /\ At(e, i, "rs_write")
    /\ LET call == calls[e][i]
       IN sendAnswer(e, i, [call EXCEPT !.sink = @ \o call.chunk,
                                        !.count = @ + Len(call.chunk)],
                     <<>>, tf, cmp)
    /\ UNCHANGED <<cfg, emitter, password, wire, ended, sent, rcvd>>

\* me.write(errMsg).then: fail with the error, or read the next envelope
readStream_answered(e, i, tf) ==
    /\ InnerSettled(e, i, "rs_answer")
    /\ LET call == calls[e][i]
           answer == calls[e][call.inner]
       IN IF ~Resolved(answer)
          THEN SetCall(e, i, SettleStream(call, "err"))
          ELSE IF call.errMsg # <<>>
          THEN SetCall(e, i, RejectStream(call, call.errMsg))
          ELSE Proceed(e, i, [call EXCEPT !.pc = "rs_read"], InnerRead(e, tf))
    /\ UNCHANGED <<cfg, emitter, password, wire, ended, sent, rcvd>>

StreamStep(e, i, u) ==
    \/ \E bufferSize \in u.bufferSizes, err \in u.readErrors,
          tf \in u.transformers, cmp \in u.compress :
          writeStream_nextChunk(e, i, bufferSize, err, tf, cmp)
    \/ \E tf \in u.transformers : writeStream_sent(e, i, tf)
    \/ writeStream_answered(e, i)
    \/ \E tf \in u.transformers, cmp \in u.compress : readStream_chunk(e, i, tf, cmp)
    \/ \E tf \in u.transformers, cmp \in u.compress : readStream_written(e, i, tf, cmp)
    \/ \E tf \in u.transformers : readStream_answered(e, i, tf)

\* what an application does with the two endpoints when it sends a file
UseStreams(u) ==
    \/ \E e \in Endpoints, F \in u.files, maxSize \in u.maxSizes : writeStream(e, u, F, maxSize)
    \/ \E e \in Endpoints, tf \in u.transformers : readStream(e, u, tf)
    \/ \E e \in Endpoints, i \in 1..u.calls : StreamStep(e, i, u)
    \/ Steps(u)

\* one writeStream() or readStream() on each endpoint; a chunk of
\* bufferSize bytes makes a frame of 4 + 32 + 2 + 1 bytes
Streaming ==
    [calls |-> 2 * (MaxFile + 1), inFlight |-> MaxInFlight, overlap |-> {}, alike |-> FALSE,
     payloads |-> {}, transformers |-> {"none"}, compress |-> {"false"}, pads |-> {0},
     sizes |-> {38, 39}, generator |-> [error : {FALSE}, pwd : {<<11>>}],
     files |-> Files, bufferSizes |-> {2}, maxSizes |-> {None}, readErrors |-> {FALSE}]

\* the network changes the last byte in flight to e, a byte of a chunk on its
\* way to a readStream()
corrupt(e) ==
    /\ Len(calls[e]) > 0
    /\ calls[e][1].kind = "readStream"
    /\ Len(wire[e]) > 0
    /\ LET k == Len(wire[e])
           last == wire[e][k]
       IN /\ last.p = "data"
          /\ Cardinality({j \in 1..(k - 1) : wire[e][j].p = "data" /\ wire[e][j].w = last.w})
                 >= 5 + DigestLength
          /\ wire' = [wire EXCEPT ![e][k].v = (@ + 128) % 256]
    /\ UNCHANGED <<cfg, emitter, password, ended, calls, sent, rcvd>>

\* a transfer over a network that corrupts chunks; an answer of readStream()
\* fits a package of 68 bytes
Corrupting == [Streaming EXCEPT !.sizes = {39, 68}]

InitCorrupting == Created(Corrupting)

NextCorrupting == UseStreams(Corrupting) \/ \E e \in Endpoints : corrupt(e)

SpecCorrupting == InitCorrupting /\ [][NextCorrupting]_vars

\* one endpoint sends a file; the application on the other answers with
\* write() calls of its own
Answering == [Streaming EXCEPT !.payloads = {<<>>, <<32>>, <<69, 9>>}, !.files = {FileContent}]

InitAnswering == Created(Answering)

NextAnswering ==
    \/ UseStreams(Answering)
    \/ \E e \in Endpoints, B \in Answering.payloads :
          /\ Len(calls[e]) < MaxCalls
          /\ write(e, Answering, B, "none", "false", FALSE)

SpecAnswering == InitAnswering /\ [][NextAnswering]_vars

\* a transfer from a source whose FS.read may fail
Failing == [Streaming EXCEPT !.readErrors = {FALSE, TRUE}]

SpecFailing == Created(Failing) /\ [][UseStreams(Failing)]_vars

\* one operation on each endpoint, whichever it is
Triggering == [Sequential EXCEPT !.calls = MaxCallsSingle, !.payloads = {<<1, 2>>}]

\* the callbacks of both endpoints are all run in the end
SpecTriggeringFair ==
    Created(Triggering) /\ [][Use(Triggering)]_vars
        /\ \A e \in Endpoints : WF_vars(\E i \in 1..Triggering.calls : Step(e, i, Triggering))

\* the first write() of endpoint p, 0 when it has made none
FirstWrite(p) ==
    IF \E j \in 1..Len(calls[p]) : calls[p][j].kind = "write"
    THEN CHOOSE j \in 1..Len(calls[p]) :
             /\ calls[p][j].kind = "write"
             /\ \A h \in 1..(j - 1) : calls[p][h].kind # "write"
    ELSE 0

\* the frame of the peer's first datagram arrives at e with bit 7 of its
\* flag byte changed: a body that is not gzip is announced as compressed
garble(e) ==
    /\ \E k \in 1..Len(wire[e]) :
           /\ wire[e][k].p = "data"
           /\ wire[e][k].w = FirstWrite(Peer(e))
           /\ k > 1
           /\ wire[e][k - 1].p = "len"
           /\ wire' = [wire EXCEPT ![e][k].v = (@ + 128) % 256]
    /\ UNCHANGED <<cfg, emitter, password, ended, calls, sent, rcvd>>

\* datagrams one after the other over a network that garbles a flag byte
Garbling ==
    [Sequential EXCEPT !.payloads = {<<1, 2>>, <<3>>}, !.compress = {"false"}, !.sizes = {5},
                       !.generator = [error : {FALSE}, pwd : {<<11>>}]]

NextGarbling == Use(Garbling) \/ \E e \in Endpoints : garble(e)

SpecGarbling == Created(Garbling) /\ [][NextGarbling]_vars

\* a transfer of at most maxSize bytes; maxSize is absent (None) or a
\* number, every frame fits
Limited ==
    [Streaming EXCEPT !.maxSizes = {None, Some(-1), Some(0), Some(1), Some(3), Some(5)},
                      !.sizes = {39}]

SpecLimited == Created(Limited) /\ [][UseStreams(Limited)]_vars

\* the network changes the low byte of the chunk length of an envelope on its
\* way to a readStream() of e: the second byte of the frame's body, after the
\* flag byte
inflate(e) ==
    /\ Len(calls[e]) > 0
    /\ calls[e][1].kind = "readStream"
    /\ \E k \in 3..Len(wire[e]) :
           /\ wire[e][k].p = "data"
           /\ wire[e][k - 1].p = "data"
           /\ wire[e][k - 2].p = "len"
           /\ wire[e][k].w = wire[e][k - 1].w
           /\ wire' = [wire EXCEPT ![e][k].v = (@ + 128) % 256]
    /\ UNCHANGED <<cfg, emitter, password, ended, calls, sent, rcvd>>

\* a transfer over a network that changes chunk lengths
NextInflating == UseStreams(Corrupting) \/ \E e \in Endpoints : inflate(e)

SpecInflating == Created(Corrupting) /\ [][NextInflating]_vars

\* a transfer, and the datagram each application writes or reads as its
\* first call once its stream call has settled; every frame fits
Afterwards == [Streaming EXCEPT !.payloads = {<<1, 2>>, <<3>>}, !.sizes = {39}]

NextAfterwards ==
    \/ UseStreams(Afterwards)
    \/ \E e \in Endpoints, B \in Afterwards.payloads :
          /\ Len(calls[e]) > 0
          /\ calls[e][1].pc = "done"
          /\ write(e, Afterwards, B, "none", "false", FALSE)
    \/ \E e \in Endpoints :
          /\ Len(calls[e]) > 0
          /\ calls[e][1].pc = "done"
          /\ read(e, Afterwards, "none")

SpecAfterwards == Created(Afterwards) /\ [][NextAfterwards]_vars

\* ---- the implementation before version 2.0 ----

\* the flag byte before 2.0: 1 when the payload is compressed, else 0
FlagBytePre2(isCompressed) == IF isCompressed THEN 1 ELSE 0

\* tryCompress before 2.0: gzip unless compress is false, kept when shorter
tryCompressPre2(cmp, gzipFails, data) ==
    IF cmp = "false" THEN [data |-> data, isCompressed |-> FALSE, gz |-> "no"]
    ELSE IF gzipFails THEN [data |-> data, isCompressed |-> FALSE, gz |-> "failed"]
    ELSE IF Len(gzip(data)) < Len(data)
         THEN [data |-> gzip(data), isCompressed |-> TRUE, gz |-> "ok"]
         ELSE [data |-> data, isCompressed |-> FALSE, gz |-> "ok"]

\* write(data) before 2.0: nothing is sent for empty data, the promise
\* resolves with null; else tryCompress and the handshake check
writePre2(e, u, B, tf, cmp, gzipFails) ==
    /\ MayCall(e, u, "write")
    /\ LET transformed == asDataTransformerPromise(tf, "Transform", B)
           result == tryCompressPre2(cmp, gzipFails, transformed)
           call == [NewCall("write", B, tf, result.data, result.isCompressed)
                    EXCEPT !.cmp = cmp, !.gz = result.gz]
       IN calls' = [calls EXCEPT ![e] =
                       Append(Archive(@),
                              IF Len(transformed) < 1
                              THEN Settle(NewCall("write", B, tf, <<>>, FALSE), "null", <<>>)
                              ELSE makeHandshakeIfNeeded(e, call))]
    /\ UNCHANGED <<cfg, emitter, password, wire, ended, sent, rcvd>>

\* the handshake is over in write() before 2.0: flag byte 0 or 1, cipher,
\* size check, the length is written
write_sendLengthPre2(e, i) ==
    /\ At(e, i, "w_len")
    /\ LET call == calls[e][i]
           cryptedData ==
               createCipher(call.pwd[1], <<FlagBytePre2(call.isCompressed)>> \o call.data)
       IN IF call.pwd = None
          THEN /\ SetCall(e, i, Settle(call, "err", <<>>))
               /\ UNCHANGED <<wire, sent>>
          ELSE IF Len(cryptedData) < 1 \/ Len(cryptedData) > getMaxPackageSize(e)
          THEN /\ SetCall(e, i, Settle(call, "null", <<>>))
               /\ UNCHANGED <<wire, sent>>
          ELSE IF ended[e]
          THEN /\ SetCall(e, i, Settle(call, "err", <<>>))
               /\ UNCHANGED <<wire, sent>>
          ELSE /\ SocketWrite(e, i, writeUInt32LE(Len(cryptedData)), "len")
               /\ SetCall(e, i, [call EXCEPT !.pc = "w_data", !.data = cryptedData,
                                             !.n = Len(cryptedData)])
    /\ UNCHANGED <<cfg, emitter, password, ended, rcvd>>

\* the body of a frame in read() before 2.0: compressed when the flag byte
\* is 1; the promise resolves with the data as they were before the
\* transformer restored them
read_dataPre2(e, i) ==
    /\ At(e, i, "r_data")
    /\ LET call == calls[e][i]
           k == readSocket(e, call.n)
           cryptedData == Vals(Take(wire[e], k))
           uncryptedData == createDecipher(call.pwd[1], cryptedData)
           isCompressed == uncryptedData[1] = 1
           compressedData == Tail(uncryptedData)
           src == Source(call.got, Take(wire[e], k))
       IN /\ k > 0
          /\ SocketRead(e, k)
          /\ IF call.pwd = None
             THEN SetCall(e, i, [Settle(call, "err", <<>>) EXCEPT !.src = src])
             ELSE IF ~isCompressed
             THEN SetCall(e, i, [Settle(call, "ok", compressedData) EXCEPT !.src = src])
             ELSE IF gunzipOk(compressedData)
             THEN SetCall(e, i, [Settle(call, "ok", gunzip(compressedData))
                                 EXCEPT !.src = src, !.isCompressed = TRUE])
             ELSE SetCall(e, i, [Settle(call, "err", <<>>)
                                 EXCEPT !.src = src, !.isCompressed = TRUE])
    /\ UNCHANGED <<cfg, emitter, password, ended, sent>>

\* a client of a version before 2.0 and a server of version 2.x, no
\* transformer, compression switched off on both sides
Cross ==
    [Sequential EXCEPT !.payloads = {<<>>, <<1, 2>>, <<3>>}, !.compress = {"false"},
                       !.pads = {0, 1, 2, 127}, !.sizes = {5},
                       !.generator = [error : {FALSE}, pwd : {<<11>>}]]

NextCross ==
    \/ \E B \in Cross.payloads, cmp \in Cross.compress, gzipFails \in BOOLEAN :
          writePre2("c", Cross, B, "none", cmp, gzipFails)
    \/ \E B \in Cross.payloads, cmp \in Cross.compress, gzipFails \in BOOLEAN :
          write("s", Cross, B, "none", cmp, gzipFails)
    \/ \E e \in Endpoints : read(e, Cross, "none")
    \/ \E i \in 1..Cross.calls :
          \/ makeClientHandshake_writeLength("c", i)
          \/ makeClientHandshake_writeKey("c", i)
          \/ makeClientHandshake_readLength("c", i)
          \/ makeClientHandshake_readPassword("c", i)
          \/ write_sendLengthPre2("c", i)
          \/ read_dataPre2("c", i)
    \/ \E i \in 1..Cross.calls :
          \/ makeServerHandshake_readLength("s", i)
          \/ \E gen \in Cross.generator : makeServerHandshake_readKey("s", i, gen)
          \/ makeServerHandshake_writePassword("s", i)
          \/ \E pad \in Cross.pads : write_sendLength("s", i, pad)
          \/ read_data("s", i)
    \/ \E e \in Endpoints, i \in 1..Cross.calls : write_sendData(e, i) \/ read_length(e, i)

SpecCross == Created(Cross) /\ [][NextCross]_vars

InitStream == Created(Streaming)

NextStream == UseStreams(Streaming)

SpecStream == InitStream /\ [][NextStream]_vars

\* the event loop of an endpoint runs every callback that is ready
EventLoop(e, u) == \E i \in 1..u.calls : StreamStep(e, i, u) \/ Step(e, i, u)

\* a transfer whose callbacks are all run in the end
SpecStreamFair ==
    InitStream /\ [][NextStream]_vars /\ \A e \in Endpoints : WF_vars(EventLoop(e, Streaming))

-----------------------------------------------------------------------------
(* What the claims speak of.                                               *)

Calls(e) == 1..Len(calls[e])

\* the latest call of e to have settled, before e made another call
Settled(e, i) == calls[e][i].pc = "done"

\* the calls of e that ran a handshake
Handshakes(e) == {i \in Calls(e) : calls[e][i].hs # "no"}

\* read() i of e took its 4 length bytes from the length bytes of one write()
\* of the peer, and that write() has resolved with its buffer
MatchingRead(e, i) ==
    /\ calls[e][i].kind = "read"
    /\ Settled(e, i)
    /\ calls[e][i].src.w # 0
    /\ calls[Peer(e)][calls[e][i].src.w].res.st = "ok"

\* the reader's Restore is the inverse of the writer's Transform
Inverts(e, i) == calls[e][i].tf = calls[e][i].src.tf

\* read() i of e resolved with the bytes the matching write() was called with
Delivered(e, i) ==
    /\ calls[e][i].res.st = "ok"
    /\ calls[e][i].res.v = calls[e][i].src.B

\* C1 as stated: every matching read of a successful write resolves with the
\* bytes written, whenever the reader's Restore inverts the writer's Transform.
C1_RoundTripAsStated ==
    \A e \in Endpoints : \A i \in Calls(e) :
        (MatchingRead(e, i) /\ Inverts(e, i)) => Delivered(e, i)

\* C1, amended: the same, for a frame whose length is at most the reader's
\* maxPackageSize.
C1_RoundTrip ==
    \A e \in Endpoints : \A i \in Calls(e) :
        (/\ MatchingRead(e, i)
         /\ Inverts(e, i)
         /\ calls[e][i].src.L <= getMaxPackageSize(e)) => Delivered(e, i)

\* a gzipped, transformed datagram came back as it was written
C1_Witness ==
    \E e \in Endpoints : \E i \in Calls(e) :
        /\ MatchingRead(e, i)
        /\ Delivered(e, i)
        /\ calls[e][i].isCompressed
        /\ calls[e][i].tf = "inc"
        /\ calls[e][i].res.v = <<7, 7, 7, 7, 7>>


-----------------------------------------------------------------------------
(* C2: datagram ordering                                                   *)

\* read() i of e got past the handshake and its promise settled
ReadReturned(e, i) ==
    /\ calls[e][i].kind = "read"
    /\ Settled(e, i)
    /\ calls[e][i].res.st \in {"ok", "null", "err"}

\* the place of read() i among the reads of e that got past the handshake
ReadOrdinal(e, i) ==
    Cardinality({k \in 1..i : calls[e][k].kind = "read" /\ calls[e][k].res.st # "hserr"})

\* the write() calls of e that resolved with their buffer
SuccessfulWrites(e) ==
    {k \in Calls(e) : calls[e][k].kind = "write" /\ calls[e][k].res.st = "ok"}

WriteOrdinal(e, k) == Cardinality({m \in SuccessfulWrites(e) : m <= k})

\* the i-th read of e has the frame, and the payload, of the peer's i-th
\* successful write
InOrder(e, i) ==
    \E k \in SuccessfulWrites(Peer(e)) :
        /\ WriteOrdinal(Peer(e), k) = ReadOrdinal(e, i)
        /\ calls[e][i].src.w = k
        /\ Inverts(e, i) => Delivered(e, i)

\* e was sent a length, of a password or of a frame, above its maxPackageSize
Oversized(e) ==
    \E i \in Calls(e) :
        \/ calls[e][i].hs = "null"
        \/ calls[e][i].kind = "read" /\ calls[e][i].res.st = "null"

\* C2 as stated: with calls made one after the other, the i-th read returns
\* the payload of the peer's i-th successful write; writes that resolved with
\* null do not count.
C2_OrderingAsStated ==
    \A e \in Endpoints : \A i \in Calls(e) : ReadReturned(e, i) => InOrder(e, i)

\* C2, amended: the same, as long as no length sent to the reading endpoint
\* is above its maxPackageSize.
C2_Ordering ==
    \A e \in Endpoints : \A i \in Calls(e) :
        (ReadReturned(e, i) /\ ~Oversized(e)) => InOrder(e, i)

\* the second read returned the payload of the second write
C2_Witness ==
    \E e \in Endpoints : \E i \in Calls(e) :
        /\ ReadReturned(e, i)
        /\ ReadOrdinal(e, i) = 2
        /\ InOrder(e, i)
        /\ Delivered(e, i)

-----------------------------------------------------------------------------
(* C3, C4: one handshake, one password                                     *)

\* C3: whatever calls are in progress together, an endpoint runs its
\* handshake at most once.
C3_OneHandshake ==
    \A e \in Endpoints : Cardinality(Handshakes(e)) <= 1

\* C4: once the password of an endpoint is set, no step changes it.
C4_PasswordSetOnce ==
    [][\A e \in Endpoints : password[e] # None => password'[e] = password[e]]_vars

-----------------------------------------------------------------------------
(* C5: key agreement                                                       *)

\* C5: when both handshakes have completed the two passwords are the same
\* bytes; the server sends the password frame only after the whole key frame
\* has arrived, and the client stores the password only after it has read
\* the 2 length bytes and every password byte the server sent.
C5_KeyAgreement ==
    /\ (password["c"] # None /\ password["s"] # None) => password["c"] = password["s"]
    /\ sent["s"]["plen"] > 0 =>
           rcvd["s"]["klen"] = 4 /\ rcvd["s"]["key"] = Len(PublicKeyPEM)
    /\ password["c"] # None =>
           /\ rcvd["c"]["plen"] = 2
           /\ rcvd["c"]["pwd"] = sent["s"]["pwd"]
           /\ rcvd["c"]["pwd"] = Len(password["c"][1])

\* both endpoints hold the 3 bytes that the generator returned
C5_Witness ==
    /\ password["c"] = Some(<<21, 22, 23>>)
    /\ password["s"] = Some(<<21, 22, 23>>)

-----------------------------------------------------------------------------
(* C6: the handshake precedes the payload                                  *)

\* call i of e has written the length of a frame, or has read one
FrameTouched(e, i) ==
    \/ /\ calls[e][i].kind = "write"
       /\ calls[e][i].pc = "w_data" \/ calls[e][i].res.st = "ok"
    \/ /\ calls[e][i].kind = "read"
       /\ calls[e][i].pc = "r_data" \/ calls[e][i].res.st \in {"ok", "null", "err"}

\* C6: an endpoint that has written or read the length of a datagram frame
\* has completed its handshake and has its password.
C6_HandshakeFirst ==
    \A e \in Endpoints : \A i \in Calls(e) : FrameTouched(e, i) => password[e] # None

-----------------------------------------------------------------------------
(* C7: the lazy trigger                                                    *)

\* no call yet, no handshake byte sent or read
Untouched(e) == calls[e] = <<>> => (sent[e] = NothingYet /\ rcvd[e] = NothingYet)

\* the client sends key frames only, the server password frames only, and
\* neither before one of its calls began a handshake
RoleBytes(e) ==
    /\ cfg[e].type = "Client" => sent[e]["plen"] = 0 /\ sent[e]["pwd"] = 0
    /\ cfg[e].type = "Server" => sent[e]["klen"] = 0 /\ sent[e]["key"] = 0
    /\ sent[e] # NothingYet => Handshakes(e) # {}

\* the call that a step adds begins a handshake exactly if the password is
\* absent when the call is made
StartedOnDemand(e) ==
    Len(calls'[e]) > Len(calls[e]) =>
        (calls'[e][Len(calls'[e])].hs # "no" <=> password[e] = None)

\* C7: an endpoint that was created and not used has exchanged no handshake
\* byte; the handshake of its role begins with a call made while the
\* password is absent, and with no other.
C7_LazyTrigger ==
    [][\A e \in Endpoints :
          /\ Untouched(e) /\ Untouched(e)'
          /\ RoleBytes(e) /\ RoleBytes(e)'
          /\ StartedOnDemand(e)]_vars

\* a first read() on the client began the handshake, the server still unused
C7_Witness ==
    /\ Len(calls["c"]) = 1
    /\ calls["c"][1].kind = "read"
    /\ calls["c"][1].hs = "run"
    /\ sent["c"]["klen"] = 4
    /\ calls["s"] = <<>>
    /\ sent["s"] = NothingYet

-----------------------------------------------------------------------------
(* C8: handshakes are not retried                                          *)

\* C8: after a handshake of an endpoint has failed, every later call on it
\* fails and begins no handshake.
C8_NotRetried ==
    \A e \in Endpoints : \A i, k \in Calls(e) :
        (i < k /\ calls[e][i].hs = "fail") =>
            /\ calls[e][k].hs = "no"
            /\ calls[e][k].res.st \in {"err", "hserr"}

-----------------------------------------------------------------------------
(* C9, C10: calls in progress together                                     *)

Datagram(t) == t.p \in {"len", "data"}

\* C9: in the stream a length byte of a frame is followed by a byte of the
\* same write(): the next length byte or the first byte of its ciphertext.
C9_WritesSerialized ==
    \A e \in Endpoints : \A k \in 1..(Len(wire[e]) - 1) :
        (wire[e][k].p = "len" /\ Datagram(wire[e][k + 1])) =>
            wire[e][k + 1].w = wire[e][k].w

\* the 4 bytes that read() i of e took for its length
HeaderMixed(e, i) ==
    IF calls[e][i].pc = "r_data" THEN Source(calls[e][i].got, <<>>).mixed
    ELSE calls[e][i].src.mixed

\* C10: with reads in progress together on endpoints that ran one handshake
\* each, no read takes for its length bytes of the ciphertext of a frame.
C10_ReadsSerialized ==
    (\A e \in Endpoints : Cardinality(Handshakes(e)) <= 1) =>
        \A e \in Endpoints : \A i \in Calls(e) :
            calls[e][i].kind = "read" => ~HeaderMixed(e, i)

-----------------------------------------------------------------------------
(* C11: a read() and a write() in progress together                        *)

\* each endpoint ran one handshake at most: calls that overlap do so on a
\* keyed endpoint
KeyedOnce == \A e \in Endpoints : Cardinality(Handshakes(e)) <= 1

\* C11: with a read() and a write() in progress together on keyed endpoints,
\* every frame is in the stream whole and every read that returns has the
\* next datagram the peer sent, as it was written.
C11_IndependentDirections ==
    KeyedOnce =>
        /\ \A e \in Endpoints : \A k \in 1..(Len(wire[e]) - 1) :
               (wire[e][k].p = "len" /\ Datagram(wire[e][k + 1])) =>
                   wire[e][k + 1].w = wire[e][k].w
        /\ \A e \in Endpoints : \A i \in Calls(e) :
               ReadReturned(e, i) =>
                   /\ InOrder(e, i)
                   /\ calls[e][i].src.whole
                   /\ Delivered(e, i)

\* on one endpoint a write() has sent its length and not yet its ciphertext
\* while a read() has taken a length and not yet the ciphertext
C11_Witness ==
    /\ KeyedOnce
    /\ \E e \in Endpoints : \E i, j \in Calls(e) :
           /\ calls[e][i].kind = "read" /\ calls[e][i].pc = "r_data"
           /\ calls[e][j].kind = "write" /\ calls[e][j].pc = "w_data"

-----------------------------------------------------------------------------
(* C12: a write() above the sender's maxPackageSize                        *)

\* write() i of e resolved with null
TooLarge(e, i) == calls[e][i].kind = "write" /\ calls[e][i].res.st = "null"

\* write() i of e resolves with null in this step
ResolvesTooLarge(e, i) ==
    /\ i <= Len(calls[e])
    /\ calls[e][i].kind = "write"
    /\ calls[e][i].res.st = "pending"
    /\ Len(calls'[e]) = Len(calls[e])
    /\ calls'[e][i].res.st = "null"

\* no byte in the streams and no settled read() comes from write() i of e
NoFrameBytes(e, i) ==
    /\ \A k \in 1..Len(wire[Peer(e)]) :
           Datagram(wire[Peer(e)][k]) => wire[Peer(e)][k].w # i
    /\ \A r \in Calls(Peer(e)) :
           (calls[Peer(e)][r].kind = "read" /\ Settled(Peer(e), r)) =>
               calls[Peer(e)][r].src.w # i

\* write() j of e, made after write() i resolved with null, has settled: it
\* succeeded or was itself too large, and the read() of the peer that is due
\* its datagram has its frame and its bytes when the length is within the
\* peer's limit as well
FollowingWriteSucceeds(e, i, j) ==
    /\ calls[e][j].res.st \in {"ok", "null"}
    /\ calls[e][j].res.st = "ok" =>
           \A r \in Calls(Peer(e)) :
               (/\ ReadReturned(Peer(e), r)
                /\ ~Oversized(Peer(e))
                /\ ReadOrdinal(Peer(e), r) = WriteOrdinal(e, j)) =>
                   /\ calls[Peer(e)][r].src.w = j
                   /\ calls[Peer(e)][r].src.whole
                   /\ Delivered(Peer(e), r)

\* C12: the step in which a write() resolves with null puts no byte on the
\* stream and leaves the password and the open stream as they are; no frame
\* byte ever comes from such a write(), and the write() after it succeeds and
\* is received as written.
C12_OutboundLimitSoft ==
    /\ [][\A e \in Endpoints : \A i \in 1..MaxCalls :
              ResolvesTooLarge(e, i) =>
                  /\ wire' = wire
                  /\ sent' = sent
                  /\ password' = password
                  /\ password[e] # None
                  /\ ended' = ended
                  /\ ~ended[e]]_vars
    /\ [](\A e \in Endpoints : \A i \in Calls(e) :
              TooLarge(e, i) =>
                  /\ NoFrameBytes(e, i)
                  /\ \A j \in Calls(e) :
                         (j > i /\ calls[e][j].kind = "write" /\ Settled(e, j)) =>
                             FollowingWriteSucceeds(e, i, j))

\* a write() resolved with null, the next write() of the endpoint resolved
\* with its buffer and the peer's read() returned that buffer
C12_Witness ==
    \E e \in Endpoints : \E i, j \in Calls(e) : \E r \in Calls(Peer(e)) :
        /\ TooLarge(e, i)
        /\ j > i
        /\ calls[e][j].kind = "write" /\ calls[e][j].res.st = "ok"
        /\ ReadReturned(Peer(e), r)
        /\ calls[Peer(e)][r].src.w = j
        /\ Delivered(Peer(e), r)
        /\ calls[Peer(e)][r].res.v = <<1, 2>>

-----------------------------------------------------------------------------
(* C13: a read() of a length above the reader's maxPackageSize             *)

\* read() i of e is about to decode a length
DecodesLength(e, i) ==
    /\ i <= Len(calls[e])
    /\ calls[e][i].kind = "read"
    /\ calls[e][i].pc = "r_len"
    /\ Len(calls'[e]) = Len(calls[e])
    /\ calls'[e][i].pc # "r_len"

\* the length in the next 4 bytes of the stream to e
NextLength(e) == readUInt32LE(Vals(Take(wire[e], 4)))

\* the next 4 bytes of the stream to e are the length bytes of one write()
\* of the peer: the header of a frame
HeaderNext(e) ==
    \A k \in 1..4 : wire[e][k].p = "len" /\ wire[e][k].w = wire[e][1].w

\* the bytes in the stream to e that are the ciphertext of write() w of the peer
BodyBytes(e, w) ==
    Cardinality({k \in 1..Len(wire[e]) : wire[e][k].p = "data" /\ wire[e][k].w = w})

\* C13: a read() that decodes a length above its endpoint's maxPackageSize
\* resolves with null in that step, having taken the 4 bytes of the length
\* and nothing else: what follows them, the ciphertext of that frame
\* included, stays in the stream.
C13_InboundLimitSignal ==
    [][\A e \in Endpoints : \A i \in 1..MaxCalls :
           (/\ DecodesLength(e, i)
            /\ Len(wire[e]) >= 4
            /\ NextLength(e) > getMaxPackageSize(e)) =>
               /\ calls'[e][i].res.st = "null"
               /\ calls'[e][i].pc = "done"
               /\ wire'[e] = Drop(wire[e], 4)
               /\ wire'[Peer(e)] = wire[Peer(e)]
               /\ HeaderNext(e) =>
                      BodyBytes(e, wire[e][1].w)' = BodyBytes(e, wire[e][1].w)]_vars

\* a read() resolved with null for the length 3 of a frame, and the 3 bytes
\* of the ciphertext of that frame are the next bytes in the stream
C13_Witness ==
    \E e \in Endpoints : \E i \in Calls(e) :
        /\ ReadReturned(e, i)
        /\ calls[e][i].res.st = "null"
        /\ calls[e][i].src.w # 0
        /\ calls[e][i].src.L = 3
        /\ getMaxPackageSize(e) = 2
        /\ Len(wire[e]) >= 3
        /\ \A k \in 1..3 : wire[e][k].p = "data" /\ wire[e][k].w = calls[e][i].src.w

-----------------------------------------------------------------------------
(* C14: what a length above the reader's maxPackageSize does to the endpoint *)

\* C14: a read() that decodes a length above its endpoint's maxPackageSize
\* closes the stream and rejects, and the endpoint reads no more from the
\* stream afterwards.
C14_InboundOversizeFatal ==
    /\ [][\A e \in Endpoints : \A i \in 1..MaxCalls :
              (/\ DecodesLength(e, i)
               /\ Len(wire[e]) >= 4
               /\ NextLength(e) > getMaxPackageSize(e)) =>
                  /\ calls'[e][i].res.st = "err"
                  /\ ended'[e]]_vars
    /\ [][\A e \in Endpoints :
              (\E i \in Calls(e) : calls[e][i].kind = "read" /\ calls[e][i].res.st = "null") =>
                  wire'[e] = wire[e] \/ Len(wire'[e]) > Len(wire[e])]_vars

-----------------------------------------------------------------------------
(* C15: the length in the header of a frame                                *)

\* write() i of e sends its 4 length bytes in this step
SendsLength(e, i) ==
    /\ i <= Len(calls[e])
    /\ calls[e][i].kind = "write"
    /\ calls[e][i].pc = "w_len"
    /\ Len(calls'[e]) = Len(calls[e])
    /\ calls'[e][i].pc = "w_data"

\* write() i of e sends its ciphertext in this step
SendsData(e, i) ==
    /\ i <= Len(calls[e])
    /\ calls[e][i].kind = "write"
    /\ calls[e][i].pc = "w_data"
    /\ Len(calls'[e]) = Len(calls[e])
    /\ calls'[e][i].res.st = "ok"

\* what this step appends to the stream from e to its peer
Appended(e) == Drop(wire'[Peer(e)], Len(wire[Peer(e)]))

\* what write() i of e was called with, after the transformer and after
\* compression when the call marked it compressed
Payload(e, i) ==
    LET T == asDataTransformerPromise(calls[e][i].tf, "Transform", calls[e][i].B)
    IN IF calls[e][i].isCompressed THEN gzip(T) ELSE T

\* C15: the 4 bytes a write() sends as the length of its frame hold a number
\* L with 0 <= L <= the sender's maxPackageSize and L = 1 + the length of the
\* payload after transformer and compression, and the ciphertext the write()
\* then sends has exactly L bytes.
C15_FrameLength ==
    [][\A e \in Endpoints : \A i \in 1..MaxCalls :
           /\ SendsLength(e, i) =>
                 LET L == readUInt32LE(Vals(Appended(e)))
                 IN /\ Len(Appended(e)) = 4
                    /\ \A k \in 1..4 : Appended(e)[k].p = "len" /\ Appended(e)[k].w = i
                    /\ 0 <= L /\ L <= getMaxPackageSize(e)
                    /\ L = 1 + Len(Payload(e, i))
                    /\ L = Len(calls'[e][i].data)
                    /\ L = calls'[e][i].n
           /\ SendsData(e, i) =>
                 /\ Len(Appended(e)) = calls[e][i].n
                 /\ Vals(Appended(e)) = calls[e][i].data
                 /\ \A k \in 1..Len(Appended(e)) :
                        Appended(e)[k].p = "data" /\ Appended(e)[k].w = i]_vars

\* a write() of five bytes that were gzipped into three has sent the length 4
\* and four bytes of ciphertext, with maxPackageSize 5, and its peer has read
\* that length
C15_Witness ==
    \E e \in Endpoints : \E i \in Calls(e) : \E r \in Calls(Peer(e)) :
        /\ calls[e][i].kind = "write"
        /\ calls[e][i].res.st = "ok"
        /\ calls[e][i].isCompressed
        /\ calls[e][i].B = <<7, 7, 7, 7, 7>>
        /\ calls[e][i].n = 4
        /\ getMaxPackageSize(e) = 5
        /\ MatchingRead(Peer(e), r)
        /\ calls[Peer(e)][r].src.w = i
        /\ calls[Peer(e)][r].src.whole
        /\ calls[Peer(e)][r].src.L = 4

-----------------------------------------------------------------------------
(* C16: when the payload is compressed                                     *)

\* write() i of e has run tryCompress and has not yet encrypted
Compressed(e, i) ==
    /\ calls[e][i].kind = "write"
    /\ calls[e][i].pc \in {"hc_wlen", "hc_wkey", "hc_rlen", "hc_rpwd",
                           "hs_rlen", "hs_rkey", "hs_wpwd", "w_len"}

\* what the transformer made of the buffer write() i of e was called with
Transformed(e, i) == asDataTransformerPromise(calls[e][i].tf, "Transform", calls[e][i].B)

\* C16: after tryCompress, with compress absent the payload is the gzip
\* output, marked compressed, exactly when gzip succeeded with an output
\* shorter than the input; with compress true it is the gzip output, marked,
\* whenever gzip succeeded; with compress false gzip is not run and the input
\* goes unmarked; when gzip fails the input goes unmarked, the failure is
\* recorded and the write() goes on to its handshake check and encryption.
C16_CompressionPolicy ==
    \A e \in Endpoints : \A i \in Calls(e) :
        Compressed(e, i) =>
            LET call == calls[e][i]
                T == Transformed(e, i)
            IN /\ call.cmp = "undefined" =>
                      /\ call.isCompressed <=> (call.gz = "ok" /\ Len(gzip(T)) < Len(T))
                      /\ call.data = IF call.isCompressed THEN gzip(T) ELSE T
               /\ (call.cmp = "true" /\ call.gz = "ok") =>
                      call.isCompressed /\ call.data = gzip(T)
               /\ call.cmp = "false" =>
                      call.gz = "no" /\ ~call.isCompressed /\ call.data = T
               /\ call.cmp # "false" => call.gz \in {"ok", "failed"}
               /\ call.gz = "failed" => ~call.isCompressed /\ call.data = T

\* compress was true and two bytes went out as the five bytes of their gzip
\* output, and on the peer gzip failed in a write() that resolved all the same
C16_Witness ==
    \E e \in Endpoints : \E i \in Calls(e) : \E j \in Calls(Peer(e)) :
        /\ Compressed(e, i)
        /\ calls[e][i].pc = "w_len"
        /\ calls[e][i].cmp = "true"
        /\ calls[e][i].tf = "none"
        /\ calls[e][i].B = <<1, 2>>
        /\ calls[e][i].data = gzip(<<1, 2>>)
        /\ Len(calls[e][i].data) > 2
        /\ calls[Peer(e)][j].kind = "write"
        /\ calls[Peer(e)][j].gz = "failed"
        /\ calls[Peer(e)][j].res.st = "ok"

-----------------------------------------------------------------------------
(* C17: the flag byte                                                      *)

\* the flag byte in the ciphertext write() i of e is about to send
SentFlag(e, i) == createDecipher(calls[e][i].pwd[1], calls[e][i].data)[1]

\* read() r of e took a whole frame of a write() of the peer, decrypted it and
\* looked at the flag byte, and the record of that write() is still kept
Decoded(e, r) ==
    /\ MatchingRead(e, r)
    /\ Settled(Peer(e), calls[e][r].src.w)
    /\ calls[e][r].src.whole
    /\ calls[e][r].src.L <= getMaxPackageSize(e)
    /\ calls[e][r].res.st \in {"ok", "err"}

\* C17: the flag byte in a frame is in 0..127 when the payload is not
\* compressed and in 128..255 when it is gzip output, and the read() that
\* decodes the frame gunzips exactly when the write() had compressed, whatever
\* the random part of the flag byte.
C17_CompressionBit ==
    /\ \A e \in Endpoints : \A i \in Calls(e) :
           (calls[e][i].kind = "write" /\ calls[e][i].pc = "w_data") =>
               /\ SentFlag(e, i) \in 0..255
               /\ SentFlag(e, i) > 127 <=> calls[e][i].isCompressed
    /\ \A e \in Endpoints : \A r \in Calls(e) :
           Decoded(e, r) =>
               /\ calls[e][r].isCompressed <=> calls[Peer(e)][calls[e][r].src.w].isCompressed
               /\ calls[e][r].res.st = "ok"

\* a read() decoded the frame of a write() that had gzipped five bytes into
\* three, gunzipped and returned the five bytes
C17_Witness ==
    \E e \in Endpoints : \E r \in Calls(e) :
        /\ Decoded(e, r)
        /\ calls[e][r].isCompressed
        /\ calls[e][r].tf = "none"
        /\ calls[e][r].res.v = <<7, 7, 7, 7, 7>>
        /\ calls[Peer(e)][calls[e][r].src.w].isCompressed
        /\ calls[Peer(e)][calls[e][r].src.w].n = 4

-----------------------------------------------------------------------------
(* C18: readSocket at the end of the stream                                *)

\* the number of bytes call i of e asks readSocket for where it stands
Requested(e, i) ==
    CASE calls[e][i].pc = "hc_rlen" -> 2
      [] calls[e][i].pc \in {"hs_rlen", "r_len"} -> 4
      [] calls[e][i].pc \in {"hc_rpwd", "hs_rkey", "r_data"} -> calls[e][i].n
      [] OTHER -> 0

\* the readSocket of call i of e resolves in this step
ReadResolves(e, i) ==
    /\ i <= Len(calls[e])
    /\ Requested(e, i) > 0
    /\ Len(calls'[e]) = Len(calls[e])
    /\ calls'[e][i] # calls[e][i]

\* call i of e waits in readSocket for more bytes than the stream holds, and
\* the peer has ended the stream
WaitsAtEof(e, i) ==
    /\ Requested(e, i) > 0
    /\ Len(wire[e]) < Requested(e, i)
    /\ ended[Peer(e)]

\* C18: a readSocket for n bytes resolves with exactly n bytes, and a
\* readSocket that finds the stream ended with fewer than n bytes in it does
\* not wait for ever: the call has a next step (in which it fails).
C18_ReadExactOnEof ==
    /\ [][\A e \in Endpoints : \A i \in 1..MaxCalls :
              ReadResolves(e, i) =>
                  /\ Len(wire[e]) >= Requested(e, i)
                  /\ wire'[e] = Drop(wire[e], Requested(e, i))]_vars
    /\ [](\A e \in Endpoints : \A i \in Calls(e) :
              WaitsAtEof(e, i) => ENABLED Step(e, i, Ending))

-----------------------------------------------------------------------------
(* C19: a file sent with writeStream() and received with readStream()      *)

\* e sends a file with writeStream() and its peer receives with readStream()
Transfer(e) ==
    /\ Len(calls[e]) > 0
    /\ Len(calls[Peer(e)]) > 0
    /\ calls[e][1].kind = "writeStream"
    /\ calls[Peer(e)][1].kind = "readStream"

\* the stream call of e has resolved
StreamResolved(e) == calls[e][1].res.st = "ok"

\* C19: when writeStream() resolves, it resolves with the length of the
\* source and the peer's readStream() has written exactly the source to its
\* target; when readStream() resolves, its target holds exactly the source
\* and it resolves with the length of the source.
C19_StreamRoundTrip ==
    \A e \in Endpoints :
        Transfer(e) =>
            LET writer == calls[e][1]
                reader == calls[Peer(e)][1]
            IN /\ StreamResolved(e) =>
                      /\ writer.count = Len(writer.F)
                      /\ reader.sink = writer.F
                      /\ reader.count = Len(writer.F)
               /\ StreamResolved(Peer(e)) =>
                      /\ reader.sink = writer.F
                      /\ reader.count = Len(writer.F)
                      /\ writer.file = <<>>

\* a source of three bytes went over in two chunks and both calls resolved
\* with 3
C19_Witness ==
    \E e \in Endpoints :
        /\ Transfer(e)
        /\ StreamResolved(e)
        /\ StreamResolved(Peer(e))
        /\ calls[e][1].F = <<5, 6, 7>>
        /\ calls[Peer(e)][1].sink = <<5, 6, 7>>
        /\ calls[e][1].count = 3
        /\ calls[Peer(e)][1].count = 3

-----------------------------------------------------------------------------
(* C20: one chunk at a time                                                *)

\* the write() calls of e whose length has gone out and that carry a chunk:
\* all but the write() of the empty chunk, which is the last
ChunksSent(e) ==
    {j \in Calls(e) :
        /\ calls[e][j].kind = "write"
        /\ calls[e][j].pc = "w_data" \/ calls[e][j].res.st = "ok"
        /\ calls[e][j].pc = "past" \/ calls[e][j].B # writeUInt32LE(0)}

\* the answers e has read
AnswersRead(e) ==
    {j \in Calls(e) : calls[e][j].kind = "read" /\ calls[e][j].res.st = "ok"}

\* the answers the peer of e has sent
AnswersSent(e) ==
    {j \in Calls(e) :
        /\ calls[e][j].kind = "write"
        /\ calls[e][j].pc = "w_data" \/ calls[e][j].res.st = "ok"}

\* the writeStream() of e starts the write() of a chunk in this step
StartsChunk(e) ==
    /\ calls[e][1].pc = "ws_next"
    /\ calls'[e][1].pc = "ws_write"
    /\ calls'[e][1].chunk # <<>>

\* C20: in a transfer the sender has at most one chunk out that it has read
\* no answer for, every answer it has read was sent by the receiver, and it
\* starts the write() of a chunk only when it has read an answer for every
\* chunk it sent.
C20_StopAndWait ==
    /\ [](\A e \in Endpoints :
              Transfer(e) =>
                  /\ Cardinality(ChunksSent(e)) - Cardinality(AnswersRead(e)) \in {0, 1}
                  /\ Cardinality(AnswersRead(e)) <= Cardinality(AnswersSent(Peer(e))))
    /\ [][\A e \in Endpoints :
              (Transfer(e) /\ StartsChunk(e)) =>
                  Cardinality(ChunksSent(e)) = Cardinality(AnswersRead(e))]_vars

\* the answer to the first chunk has been read and the second chunk is out,
\* not yet answered
C20_Witness ==
    \E e \in Endpoints :
        /\ Transfer(e)
        /\ Cardinality(ChunksSent(e)) = 2
        /\ Cardinality(AnswersRead(e)) = 1
        /\ Cardinality(AnswersSent(Peer(e))) = 1

-----------------------------------------------------------------------------
(* C21: how many envelopes and answers a transfer takes                    *)

\* the buffer size of the transfers
BufferSizeUsed == CHOOSE b \in Streaming.bufferSizes : TRUE

\* the chunks a source of n bytes makes: ceil(n / b)
ChunksOf(n) == (n + BufferSizeUsed - 1) \div BufferSizeUsed

\* the write() calls of e that carry the empty chunk: 4 bytes of length 0, no
\* hash, no body
TerminatorsSent(e) ==
    {j \in Calls(e) :
        /\ calls[e][j].kind = "write"
        /\ calls[e][j].pc = "w_data" \/ calls[e][j].res.st = "ok"
        /\ calls[e][j].pc # "past"
        /\ calls[e][j].B = <<0, 0, 0, 0>>}

\* the write() calls e has made
WritesMade(e) == {j \in Calls(e) : calls[e][j].kind = "write"}

\* the envelopes e has read
EnvelopesRead(e) ==
    {j \in Calls(e) : calls[e][j].kind = "read" /\ calls[e][j].res.st = "ok"}

\* C21: in a transfer there is never more than one envelope with the empty
\* chunk and never more answers than envelopes with a chunk; when
\* writeStream() has resolved, the sender has sent ceil(n/b) envelopes with a
\* chunk and then one with the empty chunk, as its last write(), and has read
\* ceil(n/b) answers; when readStream() has resolved, the receiver has read
\* ceil(n/b) + 1 envelopes and sent ceil(n/b) answers, and nothing is left in
\* the stream in either direction.
C21_ChunkAndAckCounts ==
    \A e \in Endpoints :
        Transfer(e) =>
            LET n == Len(calls[e][1].F)
            IN /\ Cardinality(TerminatorsSent(e)) <= 1
               /\ Cardinality(AnswersSent(Peer(e))) <= Cardinality(ChunksSent(e))
               /\ StreamResolved(e) =>
                      /\ Cardinality(ChunksSent(e)) = ChunksOf(n)
                      /\ TerminatorsSent(e) = {Len(calls[e])}
                      /\ Cardinality(WritesMade(e)) = ChunksOf(n) + 1
                      /\ Cardinality(AnswersRead(e)) = ChunksOf(n)
                      /\ Cardinality(WritesMade(Peer(e))) = ChunksOf(n)
               /\ StreamResolved(Peer(e)) =>
                      /\ Cardinality(EnvelopesRead(Peer(e))) = ChunksOf(n) + 1
                      /\ Cardinality(AnswersSent(Peer(e))) = ChunksOf(n)
                      /\ Cardinality(WritesMade(Peer(e))) = ChunksOf(n)
                      /\ wire[Peer(e)] = <<>>
                      /\ StreamResolved(e) => wire[e] = <<>>

\* three bytes went over with buffer size 2: two envelopes with a chunk, two
\* answers, one envelope with the empty chunk, and both calls resolved
C21_Witness ==
    \E e \in Endpoints :
        /\ Transfer(e)
        /\ StreamResolved(e)
        /\ StreamResolved(Peer(e))
        /\ Len(calls[e][1].F) = 3
        /\ Cardinality(ChunksSent(e)) = 2
        /\ Cardinality(TerminatorsSent(e)) = 1
        /\ Cardinality(AnswersSent(Peer(e))) = 2
        /\ Cardinality(AnswersRead(e)) = 2


\* ---------------------------------------------------------------------
\* C22: what the sender does with the answer it reads

\* the writeStream() of e takes the answer its readString() resolved with
ReadsAnswer(e) ==
    /\ Len(calls[e]) > 0
    /\ calls[e][1].kind = "writeStream"
    /\ calls[e][1].pc = "ws_answer"
    /\ calls'[e][1].pc # "ws_answer"
    /\ calls[e][calls[e][1].inner].res.st = "ok"

\* the string readString() resolved with
AnswerOf(e) == calls[e][calls[e][1].inner].res.v

\* writeStream() is rejected with 'Remote error: ' + the answer and starts
\* no call in this step
FailsRemote(e) ==
    /\ calls'[e][1].res.st = "err"
    /\ calls'[e][1].errMsg = RemoteError(AnswerOf(e))
    /\ Len(calls'[e]) = Len(calls[e])

\* writeStream() goes on to the next FS.read
Continues(e) == calls'[e][1].pc = "ws_next" /\ calls'[e][1].res.st = "pending"

\* a writeStream() rejected with a remote error has made no call after the
\* readString() of that answer
NoFurtherEnvelope ==
    \A e \in Endpoints :
        (/\ Len(calls[e]) > 0
         /\ calls[e][1].kind = "writeStream"
         /\ calls[e][1].res.st = "err"
         /\ calls[e][1].errMsg # <<>>) =>
            calls[e][Len(calls[e])].kind = "read"

EnvelopeRead(e) == calls[e][calls[e][1].inner].res.v

\* the chunk in that envelope
ChunkRead(e) == Copy(EnvelopeRead(e), 4 + DigestLength, readUInt32LE(EnvelopeRead(e)))

\* the readStream() of e takes an envelope whose chunk does not hash to the
\* hash it carries
HashMismatch(e) ==
    /\ Len(calls[e]) > 0
    /\ calls[e][1].kind = "readStream"
    /\ calls[e][1].pc = "rs_read"
    /\ calls'[e][1].pc # "rs_read"
    /\ calls[e][calls[e][1].inner].res.st = "ok"
    /\ Len(EnvelopeRead(e)) >= 4
    /\ readUInt32LE(EnvelopeRead(e)) \in 1..getMaxPackageSize(e)
    /\ Copy(EnvelopeRead(e), 4, DigestLength) # sha256(ChunkRead(e))

\* the readStream() of e has answered with an error and its write() is over
AnsweredError(e) ==
    /\ Len(calls[e]) > 0
    /\ calls[e][1].kind = "readStream"
    /\ calls[e][1].pc = "rs_answer"
    /\ calls[e][1].errMsg # <<>>
    /\ calls'[e][1].pc # "rs_answer"

\* the readStream() of the peer of e answered with the error of a hash
\* mismatch: 'Error: ' and the message
MismatchReported(e) ==
    /\ Len(calls[Peer(e)]) > 0
    /\ calls[Peer(e)][1].kind = "readStream"
    /\ Len(calls[Peer(e)][1].errMsg) >= 2
    /\ calls[Peer(e)][1].errMsg[2] = 2

\* the writeStream() of e takes what its readString() settled with
TakesAnswer(e) ==
    /\ Len(calls[e]) > 0
    /\ calls[e][1].kind = "writeStream"
    /\ calls[e][1].pc = "ws_answer"
    /\ calls'[e][1].pc # "ws_answer"

\* C23: on a hash mismatch the receiver writes nothing to its target and
\* answers 'Invalid chunk hash: <hex>'; its readStream() is rejected; the
\* sender's writeStream() is rejected with exactly
\* 'Remote error: Invalid chunk hash: <hex>'.
C23_HashMismatch ==
    /\ [][\A e \in Endpoints :
              HashMismatch(e) =>
                  /\ calls'[e][1].sink = calls[e][1].sink
                  /\ calls'[e][1].pc = "rs_answer"
                  /\ calls'[e][calls'[e][1].inner].B =
                         InvalidChunkHashMessage(sha256(ChunkRead(e)))]_vars
    /\ [][\A e \in Endpoints :
              AnsweredError(e) =>
                  /\ calls'[e][1].res.st = "err"
                  /\ calls'[e][1].sink = calls[e][1].sink]_vars
    /\ [][\A e \in Endpoints :
              (TakesAnswer(e) /\ MismatchReported(e)) =>
                  /\ calls'[e][1].res.st = "err"
                  /\ calls'[e][1].errMsg = RemoteError(Tail(calls[Peer(e)][1].errMsg))]_vars

\* what the code does on a hash mismatch: the answer is toStringSafe of the
\* Error, and a sender that can read it is rejected with 'Remote error: ' and
\* that answer
HashMismatchAsCoded ==
    /\ [][\A e \in Endpoints :
              HashMismatch(e) =>
                  /\ calls'[e][1].sink = calls[e][1].sink
                  /\ calls'[e][1].pc = "rs_answer"
                  /\ calls'[e][calls'[e][1].inner].B =
                         ErrorToString(InvalidChunkHashMessage(sha256(ChunkRead(e))))]_vars
    /\ [][\A e \in Endpoints :
              AnsweredError(e) =>
                  /\ calls'[e][1].res.st = "err"
                  /\ calls'[e][1].sink = calls[e][1].sink]_vars
    /\ [][\A e \in Endpoints :
              (TakesAnswer(e) /\ MismatchReported(e)
                 /\ calls[e][calls[e][1].inner].res.st = "ok") =>
                  /\ calls'[e][1].res.st = "err"
                  /\ calls'[e][1].errMsg = RemoteError(calls[Peer(e)][1].errMsg)]_vars

\* the sender went on after the answer to a corrupted chunk: it could not
\* read the answer, which is longer than its packages may be
SenderWentOn ==
    \E e \in Endpoints :
        /\ Len(calls[e]) > 0
        /\ calls[e][1].kind = "writeStream"
        /\ MismatchReported(e)
        /\ calls[Peer(e)][1].res.st = "err"
        /\ Cardinality(WritesMade(e)) = 2


\* ---------------------------------------------------------------------
\* C24: an endpoint that is neither server nor client

UnknownType(e) == cfg[e].type \notin {"Client", "Server"}

\* C24: on an endpoint of unknown type every read(), write() and
\* makeHandshakeIfNeeded() is rejected with the error of the unknown socket
\* type at once, the endpoint has written nothing to the stream and has no
\* password.
C24_UnknownRole ==
    \A e \in Endpoints :
        UnknownType(e) =>
            /\ password[e] = None
            /\ sent[e] = NothingYet
            /\ wire[Peer(e)] = <<>>
            /\ \A i \in Calls(e) :
                   /\ calls[e][i].pc \in {"done", "past"}
                   /\ calls[e][i].res.st = "hserr"
                   /\ calls[e][i].hs = "fail"

\* an endpoint of unknown type has made a write() and then a read(), both
\* rejected
C24_Witness ==
    \E e \in Endpoints :
        /\ UnknownType(e)
        /\ Len(calls[e]) = 2
        /\ calls[e][1].kind = "write"
        /\ calls[e][2].kind = "read"
        /\ calls[e][2].res.st = "hserr"


\* ---------------------------------------------------------------------
\* C25: a handshake length over the limit

\* call i of e reads, in this step, a password length (client) or a key
\* length (server) that is over its maxPackageSize
ReadsOversize(e, i) ==
    /\ i \in Calls(e)
    /\ calls'[e][i].pc # calls[e][i].pc
    /\ \/ /\ calls[e][i].pc = "hc_rlen"
          /\ Len(wire[e]) >= 2
          /\ readUInt16LE(Vals(Take(wire[e], 2))) > getMaxPackageSize(e)
       \/ /\ calls[e][i].pc = "hs_rlen"
          /\ Len(wire[e]) >= 4
          /\ readUInt32LE(Vals(Take(wire[e], 4))) > getMaxPackageSize(e)

\* the 'handshake' events among those the call has emitted
HandshakeEvents(call) ==
    {k \in 1..Len(call.emitted) : call.emitted[k].name = "handshake"}

\* C25: on a password length or a key length over maxPackageSize the
\* endpoint ends the stream and the handshake fails: makeHandshakeIfNeeded
\* does not resolve, no 'handshake' event is emitted, the password stays
\* absent and nothing (no password frame) is sent.
C25_HandshakeLengthLimits ==
    [][\A e \in Endpoints, i \in 1..MaxCalls :
           ReadsOversize(e, i) =>
               /\ ended'[e]
               /\ password'[e] = None
               /\ sent' = sent
               /\ calls'[e][i].hs = "fail"
               /\ calls'[e][i].res.st = "hserr"
               /\ HandshakeEvents(calls'[e][i]) = {}]_vars

\* what the code does on such a length: the stream is ended, nothing is sent
\* and the password stays absent, but makeHandshakeIfNeeded resolves with
\* null after a 'handshake' event
OversizeAsCoded ==
    [][\A e \in Endpoints, i \in 1..MaxCalls :
           ReadsOversize(e, i) =>
               /\ ended'[e]
               /\ password'[e] = None
               /\ sent' = sent
               /\ calls'[e][i].hs = "null"
               /\ calls'[e][i].emitted[Len(calls'[e][i].emitted)] = Event("handshake", None)]_vars


\* ---------------------------------------------------------------------
\* C26: the order of the events of a handshake

\* in ev every event named later comes after one named earlier
Precedes(ev, earlier, later) ==
    \A k \in 1..Len(ev) :
        ev[k].name = later => \E j \in 1..(k - 1) : ev[j].name = earlier

\* call i of e emits 'handshake' in this step
EmitsHandshake(e, i) ==
    /\ i \in Calls(e)
    /\ Len(calls'[e]) = Len(calls[e])
    /\ Cardinality(HandshakeEvents(calls'[e][i])) > Cardinality(HandshakeEvents(calls[e][i]))

\* the last event call i of e has emitted after this step
LastEmitted(e, i) == calls'[e][i].emitted[Len(calls'[e][i].emitted)]

\* C26: a client emits 'rsakey.generating' before 'rsakey.generated' before
\* 'handshake', a server 'password.generating' before 'password.generated'
\* before 'handshake'; 'handshake' is emitted when the password is set, with
\* that password.
C26_HandshakeEventOrder ==
    /\ [](\A e \in Endpoints : \A i \in Calls(e) :
              /\ Precedes(calls[e][i].emitted, "rsakey.generating", "rsakey.generated")
              /\ Precedes(calls[e][i].emitted, "password.generating", "password.generated")
              /\ cfg[e].type = "Client" =>
                     Precedes(calls[e][i].emitted, "rsakey.generated", "handshake")
              /\ cfg[e].type = "Server" =>
                     Precedes(calls[e][i].emitted, "password.generated", "handshake"))
    /\ [][\A e \in Endpoints, i \in 1..MaxCalls :
              EmitsHandshake(e, i) =>
                  /\ LastEmitted(e, i).name = "handshake"
                  /\ LastEmitted(e, i).arg # None
                  /\ password'[e] = LastEmitted(e, i).arg]_vars

\* the same for the handshakes that end with a password: all of them but
\* those that read a length over maxPackageSize
EventOrderWithPassword ==
    /\ [](\A e \in Endpoints : \A i \in Calls(e) :
              /\ Precedes(calls[e][i].emitted, "rsakey.generating", "rsakey.generated")
              /\ Precedes(calls[e][i].emitted, "password.generating", "password.generated")
              /\ (cfg[e].type = "Client" /\ calls[e][i].hs # "null") =>
                     Precedes(calls[e][i].emitted, "rsakey.generated", "handshake")
              /\ (cfg[e].type = "Server" /\ calls[e][i].hs # "null") =>
                     Precedes(calls[e][i].emitted, "password.generated", "handshake"))
    /\ [][\A e \in Endpoints, i \in 1..MaxCalls :
              EmitsHandshake(e, i) =>
                  /\ LastEmitted(e, i).name = "handshake"
                  /\ password'[e] = LastEmitted(e, i).arg
                  /\ calls'[e][i].hs = "null" <=> LastEmitted(e, i).arg = None
                  /\ calls'[e][i].hs = "null" <=> ReadsOversize(e, i)]_vars

\* both endpoints have emitted their three events
BothHandshakesEmitted ==
    \E i \in Calls("c"), j \in Calls("s") :
        /\ Len(calls["c"][i].emitted) = 3
        /\ Len(calls["s"][j].emitted) = 3
        /\ calls["s"][j].emitted[3] = Event("handshake", password["s"])
        /\ password["s"] # None


\* ---------------------------------------------------------------------
\* C27: who hears of 'disposed'

\* C27: when dispose() has ended the stream and emitted 'disposed', every
\* listener that was registered for 'disposed' when dispose() was called has
\* been called.
C27_DisposeNotification ==
    \A e \in Endpoints :
        emitter[e].dispose = "done" => emitter[e].before \subseteq emitter[e].called

\* what the code does: 'disposed' goes to the listeners registered after
\* dispose() was called, the others were removed
DisposedToLateListeners ==
    [][\A e \in Endpoints :
           (emitter[e].dispose = "end" /\ emitter'[e].dispose = "done") =>
               /\ emitter'[e].called = emitter[e].disposed
               /\ ended[e]]_vars

\* dispose() is over and neither of the two listeners registered before it
\* was called
DisposedUnheard ==
    \E e \in Endpoints :
        /\ emitter[e].dispose = "done"
        /\ emitter[e].before = Listeners
        /\ emitter[e].called = {}


\* ---------------------------------------------------------------------
\* C28: the password on the stream

\* call i of the server e writes its password frame in this step
WritesPassword(e, i) ==
    /\ i \in Calls(e)
    /\ cfg[e].type = "Server"
    /\ calls[e][i].pc = "hs_wpwd"
    /\ Len(wire'[Peer(e)]) > Len(wire[Peer(e)])

\* the bytes e puts on the stream in this step
Written(e) == Vals(Drop(wire'[Peer(e)], Len(wire[Peer(e)])))

\* C28: the bytes the server writes as its password frame are not the
\* generated password itself: the raw password does not appear on the
\* stream.
C28_PasswordConfidential ==
    [][\A e \in Endpoints, i \in 1..MaxCalls :
           WritesPassword(e, i) => Written(e) # calls[e][i].hbuf]_vars

\* what the code does: the password frame is the generated password, byte
\* for byte, and it becomes the server's password
PasswordInClear ==
    [][\A e \in Endpoints, i \in 1..MaxCalls :
           WritesPassword(e, i) =>
               /\ Written(e) = calls[e][i].hbuf
               /\ password'[e] = Some(Written(e))]_vars


\* ---------------------------------------------------------------------
\* C29: a write() of nothing

\* write() i of e was called with an empty buffer on an endpoint that had or
\* got its password and has not ended its socket, and has settled
EmptyWritten(e, i) ==
    /\ calls[e][i].kind = "write"
    /\ calls[e][i].pc = "done"
    /\ calls[e][i].B = <<>>
    /\ calls[e][i].hs \in {"no", "ok"}
    /\ ~ended[e]

\* read() r of e, on an endpoint that had or got its password, has settled
\* after taking the length of the frame of a write() of an empty buffer
EmptyRead(e, r) ==
    /\ calls[e][r].kind = "read"
    /\ calls[e][r].pc = "done"
    /\ calls[e][r].hs \in {"no", "ok"}
    /\ calls[e][r].src.w # 0
    /\ calls[e][r].src.B = <<>>

\* an empty write() puts one frame on the stream: the 4 bytes of its length,
\* then that many bytes, the flag byte first
OneFrame ==
    [][\A e \in Endpoints, i \in 1..MaxCalls :
           /\ (SendsLength(e, i) /\ calls[e][i].B = <<>>) =>
                  /\ Len(Appended(e)) = 4
                  /\ readUInt32LE(Vals(Appended(e))) = 1 + Len(Payload(e, i))
           /\ (SendsData(e, i) /\ calls[e][i].B = <<>>) =>
                  Len(Appended(e)) = 1 + Len(Payload(e, i))]_vars

\* C29 as stated: a write() of an empty buffer resolves with a buffer, not
\* with null, after putting one frame on the stream, and the read() of that
\* frame resolves with an empty buffer, whatever the compress setting.
C29_EmptyWrite ==
    /\ [](\A e \in Endpoints : \A i \in Calls(e) :
              /\ EmptyWritten(e, i) => calls[e][i].res.st = "ok"
              /\ EmptyRead(e, i) =>
                     /\ calls[e][i].res.st = "ok"
                     /\ calls[e][i].res.v = <<>>)
    /\ OneFrame

\* C29 amended: the same when the frame, the flag byte and after it the gzip
\* output if the buffer was compressed, is not longer than the maxPackageSize
\* of the writer and of the reader; a longer one resolves with null.
C29_EmptyWriteWithinLimit ==
    /\ [](\A e \in Endpoints : \A i \in Calls(e) :
              /\ EmptyWritten(e, i) =>
                     IF 1 + Len(Payload(e, i)) <= getMaxPackageSize(e)
                     THEN calls[e][i].res.st = "ok"
                     ELSE calls[e][i].res.st = "null"
              /\ (EmptyRead(e, i) /\ calls[e][i].src.L <= getMaxPackageSize(e)
                    /\ calls[e][i].res.st # "pending") =>
                     /\ calls[e][i].src.whole
                     /\ calls[e][i].res.st = "ok"
                     /\ calls[e][i].res.v = <<>>
              /\ (EmptyRead(e, i) /\ calls[e][i].src.L > getMaxPackageSize(e)) =>
                     calls[e][i].res.st = "null")
    /\ OneFrame

\* an empty buffer was written with compress true, as a frame of two bytes,
\* and the peer's read() gunzipped it and resolved with an empty buffer
C29_Witness ==
    \E e \in Endpoints : \E i \in Calls(e) : \E r \in Calls(Peer(e)) :
        /\ EmptyWritten(e, i)
        /\ calls[e][i].isCompressed
        /\ calls[e][i].res.st = "ok"
        /\ EmptyRead(Peer(e), r)
        /\ calls[Peer(e)][r].src.w = i
        /\ calls[Peer(e)][r].src.L = 2
        /\ calls[Peer(e)][r].isCompressed
        /\ calls[Peer(e)][r].res = [st |-> "ok", v |-> <<>>]


\* ---------------------------------------------------------------------
\* C30: payloads at the limit

\* write() i of e, on an endpoint that had or got its password and has not
\* ended its socket, has settled
Written30(e, i) ==
    /\ calls[e][i].kind = "write"
    /\ calls[e][i].pc = "done"
    /\ calls[e][i].hs \in {"no", "ok"}
    /\ ~ended[e]

\* read() r of e, on an endpoint with its password and the maxPackageSize of
\* its peer, has settled after taking the length of a frame
ReadBySameLimit(e, r) ==
    /\ calls[e][r].kind = "read"
    /\ calls[e][r].pc = "done"
    /\ calls[e][r].hs \in {"no", "ok"}
    /\ calls[e][r].src.w # 0
    /\ getMaxPackageSize(e) = getMaxPackageSize(Peer(e))

\* C30: without compression and transformer a write() of n bytes sends a
\* frame exactly when n + 1 <= maxPackageSize, and the frame has n + 1 bytes;
\* otherwise it resolves with null and sends nothing; a reader with the same
\* maxPackageSize resolves with the n bytes.
C30_SizeBoundary ==
    /\ [](\A e \in Endpoints : \A i \in Calls(e) :
              /\ Written30(e, i) =>
                     IF Len(calls[e][i].B) + 1 <= getMaxPackageSize(e)
                     THEN calls[e][i].res.st = "ok"
                     ELSE calls[e][i].res.st = "null"
              /\ ReadBySameLimit(e, i) =>
                     /\ calls[e][i].src.whole
                     /\ calls[e][i].src.L = Len(calls[e][i].src.B) + 1
                     /\ calls[e][i].res = [st |-> "ok", v |-> calls[e][i].src.B])
    /\ [][\A e \in Endpoints, i \in 1..MaxCalls :
              /\ SendsLength(e, i) =>
                     /\ Len(calls[e][i].B) + 1 <= getMaxPackageSize(e)
                     /\ readUInt32LE(Vals(Appended(e))) = Len(calls[e][i].B) + 1
              /\ SendsData(e, i) => Len(Appended(e)) = Len(calls[e][i].B) + 1
              /\ (/\ i \in Calls(e)
                  /\ calls[e][i].kind = "write"
                  /\ Len(calls'[e]) = Len(calls[e])
                  /\ calls[e][i].res.st = "pending"
                  /\ calls'[e][i].res.st = "null") => wire' = wire]_vars

\* a payload of 3 bytes went as a frame of 4 bytes between endpoints with
\* maxPackageSize 4 and was read intact
C30_Witness ==
    \E e \in Endpoints : \E r \in Calls(e) :
        /\ ReadBySameLimit(e, r)
        /\ getMaxPackageSize(e) = 4
        /\ calls[e][r].src.L = 4
        /\ calls[e][r].res = [st |-> "ok", v |-> <<1, 2, 3>>]
        /\ Written30(Peer(e), calls[e][r].src.w)
        /\ calls[Peer(e)][calls[e][r].src.w].res.st = "ok"

\* a payload of 4 bytes, as long as maxPackageSize, resolved with null and
\* nothing but the handshake is on the stream
NothingSentAtLimit ==
    \E e \in Endpoints : \E i \in Calls(e) :
        /\ Written30(e, i)
        /\ getMaxPackageSize(e) = 4
        /\ calls[e][i].B = <<1, 2, 3, 4>>
        /\ calls[e][i].res.st = "null"
-----------------------------------------------------------------------------
(* C31: stream transfers terminate                                         *)

\* the promise of the stream call of e has settled
StreamSettled(e) == Len(calls[e]) > 0 /\ calls[e][1].pc = "done"

\* C31: under fair scheduling, once an endpoint runs writeStream() over a
\* finite source and its peer runs readStream(), both calls settle in the
\* end, whatever the buffer size and the maximum package sizes, also when
\* the envelope of a chunk does not fit a frame of the sender.
C31_StreamsTerminate ==
    \A e \in Endpoints :
        Transfer(e) ~> (StreamSettled(e) /\ StreamSettled(Peer(e)))

\* the envelope of e's chunk did not fit its frame: write() resolved with
\* null, nothing was sent, and writeStream() reads the answer
WaitsForAnswerToNothing(e) ==
    /\ Transfer(e)
    /\ calls[e][1].pc = "ws_answer"
    /\ calls[Peer(e)][1].pc = "rs_read"
    /\ wire[e] = <<>>
    /\ wire[Peer(e)] = <<>>
    /\ ~ENABLED EventLoop(e, Streaming)
    /\ ~ENABLED EventLoop(Peer(e), Streaming)

\* as coded: a sender whose envelope did not fit and its receiver wait for
\* each other, and stay so
StreamsStuck == \E e \in Endpoints : WaitsForAnswerToNothing(e)

-----------------------------------------------------------------------------
(* C32: an error of FS.read in writeStream()                               *)

\* e runs writeStream() and an FS.read of its source has failed
SourceReadFailed(e) ==
    /\ Len(calls[e]) > 0
    /\ calls[e][1].kind = "writeStream"
    /\ calls[e][1].failed

\* C32: when reading the source fails inside writeStream(), writeStream()
\* does not resolve with a byte count (it rejects with the error), and the
\* peer's readStream() does not resolve as after a complete transfer.
C32_SourceReadErrorPropagates ==
    \A e \in Endpoints :
        SourceReadFailed(e) =>
            /\ ~StreamResolved(e)
            /\ Transfer(e) => ~StreamResolved(Peer(e))

\* as coded: the transfer ends at the failed read as at the end of the
\* source; writeStream() is never rejected for it
ReadErrorAsEndOfFile ==
    \A e \in Endpoints :
        SourceReadFailed(e) =>
            /\ calls[e][1].res.st # "err"
            /\ calls[e][1].chunk = <<>>

\* both ends report success although the source was not read to its end
TruncatedTransferResolved ==
    \E e \in Endpoints :
        /\ SourceReadFailed(e)
        /\ Transfer(e)
        /\ StreamResolved(e)
        /\ StreamResolved(Peer(e))
        /\ Len(calls[Peer(e)][1].sink) < Len(calls[e][1].F)

-----------------------------------------------------------------------------
(* C33: the sender after an error of the receiver                          *)

\* the readStream() of the peer of e answered a chunk of e's writeStream()
\* with an error and was rejected with it
ReceiverFailed(e) ==
    /\ Transfer(e)
    /\ calls[Peer(e)][1].res.st = "err"
    /\ calls[Peer(e)][1].errMsg # <<>>

\* e starts a write() in this step
StartsWrite(e) == Cardinality(WritesMade(e))' > Cardinality(WritesMade(e))

\* C33: once the receiver has answered chunk k with a non-empty answer and
\* failed its readStream(), the sender writes no further envelope (neither
\* chunk k+1 nor the terminator), however long the frame of the answer is
\* compared with the sender's maximum package size.
C33_SenderStopsAfterReceiverError ==
    [][\A e \in Endpoints : ReceiverFailed(e) => ~StartsWrite(e)]_vars

\* as coded: the sender goes on after the receiver's error only when its
\* read() of the answer resolved with null, the frame being longer than its
\* packages may be
SenderStopsWhenAnswerFits ==
    [][\A e \in Endpoints :
          (ReceiverFailed(e) /\ StartsWrite(e)) =>
              \E j \in Calls(e) :
                  /\ calls[e][j].kind = "read"
                  /\ calls[e][j].res.st = "null"]_vars

-----------------------------------------------------------------------------
(* C34: the handshake is made whichever operations start it                *)

\* both endpoints have started an operation
BothStarted == \A e \in Endpoints : Len(calls[e]) > 0

\* both endpoints have a password
BothKeyed == \A e \in Endpoints : password[e] # None

\* C34: when the client has started a read(), write() or
\* makeHandshakeIfNeeded() and the server has started one, in either order,
\* then under fair scheduling both handshakes complete and both endpoints
\* have a password in the end.
C34_HandshakeLiveness == BothStarted ~> BothKeyed


\* the same operations when the key and the password fit the packages of
\* both endpoints and the password generator succeeds
Fitting == [Triggering EXCEPT !.sizes = {5}, !.generator = [error : {FALSE}, pwd : {<<11>>}]]

SpecFittingFair ==
    Created(Fitting) /\ [][Use(Fitting)]_vars
        /\ \A e \in Endpoints : WF_vars(\E i \in 1..Fitting.calls : Step(e, i, Fitting))

\* as coded: the handshakes complete when nothing is too long for a package
\* (checked under SpecFittingFair)
HandshakeLivenessWhenFitting == BothStarted ~> (BothKeyed /\ password["c"] = password["s"])

\* the server found the client's key too long, ended its socket and left
\* the client waiting for a password
ClientLeftWaiting ==
    /\ Len(calls["c"]) > 0
    /\ calls["c"][1].pc = "hc_rlen"
    /\ Len(calls["s"]) > 0
    /\ calls["s"][1].pc = "done"
    /\ password["s"] = None
    /\ wire["c"] = <<>>

-----------------------------------------------------------------------------
(* C35: a read() whose gunzip fails                                        *)

\* read() i of e takes the body of a frame in this step and is rejected
\* because ZLib.gunzip fails
GunzipFails(e, i) ==
    /\ At(e, i, "r_data")
    /\ calls[e][i].kind = "read"
    /\ calls'[e][i].pc = "done"
    /\ calls'[e][i].res.st = "err"
    /\ calls'[e][i].isCompressed

\* read() i of e, the one after a rejected read(), settles in this step
NextReadSettles(e, i) ==
    /\ i > 1
    /\ At(e, i, "r_data")
    /\ calls[e][i].kind = "read"
    /\ calls[e][i - 1].kind = "read"
    /\ calls[e][i - 1].res.st = "err"
    /\ calls'[e][i].pc = "done"

\* the write() of p that follows its first one
SecondWrite(p) ==
    CHOOSE j \in (FirstWrite(p) + 1)..(Len(calls[p]) + 1) :
        /\ j <= Len(calls[p]) => calls[p][j].kind = "write"
        /\ \A h \in (FirstWrite(p) + 1)..(j - 1) : calls[p][h].kind # "write"

\* C35: a read() whose payload is flagged as compressed and fails to gunzip
\* is rejected, the 4 bytes of the header and the L bytes of the body of
\* its frame are consumed and the socket is not ended; the next read() of
\* the endpoint resolves with the next datagram the peer sent.
C35_GunzipErrorLocal ==
    [][\A e \in Endpoints : \A i \in Calls(e) :
          /\ GunzipFails(e, i) =>
                 /\ Len(calls[e][i].got) = 4
                 /\ calls[e][i].n = readUInt32LE(Vals(calls[e][i].got))
                 /\ wire'[e] = Drop(wire[e], calls[e][i].n)
                 /\ calls'[e][i].src.whole
                 /\ ended' = ended
                 /\ ~ended[e] /\ ~ended[Peer(e)]
          /\ NextReadSettles(e, i) =>
                 /\ calls'[e][i].res.st = "ok"
                 /\ calls'[e][i].src.whole
                 /\ calls'[e][i].src.w = SecondWrite(Peer(e))
                 /\ calls'[e][i].res.v = calls'[e][i].src.B]_vars

\* a read() was rejected and the next read() of the endpoint has resolved
\* with the peer's second datagram
C35_Witness ==
    \E e \in Endpoints :
        /\ Len(calls[e]) = 2
        /\ calls[e][1].kind = "read"
        /\ calls[e][1].res.st = "err"
        /\ calls[e][2].kind = "read"
        /\ calls[e][2].res.st = "ok"
        /\ calls[e][2].res.v = <<3>>
        /\ calls[e][2].src.w = 2

-----------------------------------------------------------------------------
(* C36: writeStream() with a maximum number of bytes                       *)

\* e runs writeStream() with a number as maxSize
Limits(e) ==
    /\ Len(calls[e]) > 0
    /\ calls[e][1].kind = "writeStream"
    /\ calls[e][1].maxSize # None

\* min(m, len(F)), and 0 for m <= 0
Allowed(e) ==
    LET m == calls[e][1].maxSize[1]
    IN IF m <= 0 THEN 0 ELSE Min(m, Len(calls[e][1].F))

\* writeStream() of e reads its source in this step
ReadsSource(e) ==
    /\ Len(calls[e]) > 0
    /\ calls[e][1].kind = "writeStream"
    /\ calls[e][1].pc = "ws_next"
    /\ calls'[e][1].pc = "ws_write"

\* C36: writeStream() with maxBytes = m sends the first min(m, len(F))
\* bytes of the source in chunks of at most min(bufSize, remaining) bytes and
\* then the terminator; writer and reader both report min(m, len(F)); with
\* m <= 0 no byte of the source is read, only the terminator is sent and both
\* report 0.
C36_MaxBytes ==
    /\ [](\A e \in Endpoints :
              Limits(e) =>
                  LET writer == calls[e][1]
                  IN /\ writer.count <= Allowed(e)
                     /\ Len(writer.chunk) <= BufferSizeUsed
                     /\ StreamResolved(e) =>
                            /\ writer.count = Allowed(e)
                            /\ TerminatorsSent(e) = {Len(calls[e])}
                            /\ Cardinality(WritesMade(e)) = ChunksOf(Allowed(e)) + 1
                            /\ Transfer(e) => calls[Peer(e)][1].sink = Take(writer.F, Allowed(e))
                     /\ (Transfer(e) /\ StreamResolved(Peer(e))) =>
                            /\ calls[Peer(e)][1].count = Allowed(e)
                            /\ calls[Peer(e)][1].sink = Take(writer.F, Allowed(e))
                     /\ writer.maxSize[1] <= 0 =>
                            /\ writer.count = 0
                            /\ ~StreamSettled(e) => writer.file = writer.F
                            /\ Cardinality(WritesMade(e)) <= 1
                            /\ Transfer(e) => calls[Peer(e)][1].sink = <<>>)
    /\ [][\A e \in Endpoints :
              (Limits(e) /\ ReadsSource(e)) =>
                  LET remaining == Allowed(e) - calls[e][1].count
                      sentSoFar == Len(calls[e][1].F) - Len(calls[e][1].file)
                  IN /\ Len(calls'[e][1].chunk) = Min(BufferSizeUsed, remaining)
                     /\ calls'[e][1].chunk =
                            SubSeq(calls[e][1].F, sentSoFar + 1,
                                   sentSoFar + Len(calls'[e][1].chunk))
                     /\ calls'[e][1].count = calls[e][1].count + Len(calls'[e][1].chunk)]_vars

\* one byte was asked of a source of three with buffer size 2: a chunk of
\* one byte, the terminator, and both calls report 1
C36_Witness ==
    \E e \in Endpoints :
        /\ Transfer(e)
        /\ calls[e][1].maxSize = Some(1)
        /\ calls[e][1].F = FileContent
        /\ StreamResolved(e)
        /\ StreamResolved(Peer(e))
        /\ calls[e][1].count = 1
        /\ calls[Peer(e)][1].count = 1
        /\ calls[Peer(e)][1].sink = <<FileContent[1]>>

-----------------------------------------------------------------------------
(* C37: an envelope whose chunk length is greater than the receiver's      *)
(* maximum package size                                                    *)

\* the readStream() of e takes an envelope whose chunk length field is
\* greater than getMaxPackageSize()
TooBig(e) ==
    /\ Len(calls[e]) > 0
    /\ calls[e][1].kind = "readStream"
    /\ calls[e][1].pc = "rs_read"
    /\ calls'[e][1].pc # "rs_read"
    /\ calls[e][calls[e][1].inner].res.st = "ok"
    /\ Len(EnvelopeRead(e)) >= 4
    /\ readUInt32LE(EnvelopeRead(e)) > getMaxPackageSize(e)

\* the write() of that answer by the readStream() of e is over
AnsweredTooBig(e) ==
    /\ Len(calls[e]) > 0
    /\ calls[e][1].kind = "readStream"
    /\ calls[e][1].pc = "rs_answer"
    /\ calls[e][1].errMsg = ChunkIsTooBig
    /\ calls'[e][1].pc # "rs_answer"

\* the writeStream() of e takes the answer 'Chunk is too big!' of its peer,
\* which its readString() resolved with
TakesTooBig(e) ==
    /\ TakesAnswer(e)
    /\ calls[e][calls[e][1].inner].res.st = "ok"
    /\ calls[e][calls[e][1].inner].res.v = ChunkIsTooBig

-----------------------------------------------------------------------------
(* C38: the target of readStream() is a prefix of the source               *)

\* the readStream() of e gets the callback of FS.write in this step
WritesTarget(e) ==
    /\ Len(calls[e]) > 0
    /\ calls[e][1].kind = "readStream"
    /\ calls[e][1].pc = "rs_write"
    /\ calls'[e][1].pc # "rs_write"

\* C38: in every state of a transfer over a stream without faults, what the
\* receiver has written to its target is a prefix of what the sender has
\* read from its source, and the receiver's byte count is the length of that
\* prefix; each chunk written is the part of the source that follows what
\* the target holds: in order, none twice, none skipped.
C38_SinkIsPrefix ==
    /\ [](\A e \in Endpoints :
              Transfer(e) =>
                  LET writer == calls[e][1]
                      reader == calls[Peer(e)][1]
                  IN /\ Len(reader.sink) <= writer.count
                     /\ writer.count <= Len(writer.F)
                     /\ reader.sink = Take(writer.F, Len(reader.sink))
                     /\ reader.count = Len(reader.sink)
                     /\ ~StreamSettled(e) =>
                            writer.count = Len(writer.F) - Len(writer.file))
    /\ [][\A e \in Endpoints :
              (Transfer(e) /\ WritesTarget(Peer(e))) =>
                  LET F == calls[e][1].F
                      before == calls[Peer(e)][1].sink
                      after == calls'[Peer(e)][1].sink
                      chunk == calls[Peer(e)][1].chunk
                  IN /\ Len(chunk) > 0
                     /\ after = before \o chunk
                     /\ chunk = SubSeq(F, Len(before) + 1, Len(before) + Len(chunk))
                     /\ Len(after) = calls[e][1].count]_vars

\* half way: the first chunk of a source of three bytes is in the target,
\* the second has been read from the source
C38_Witness ==
    \E e \in Endpoints :
        /\ Transfer(e)
        /\ calls[e][1].F = FileContent
        /\ calls[e][1].count = 3
        /\ calls[Peer(e)][1].sink = Take(FileContent, 2)
        /\ calls[Peer(e)][1].count = 2
        /\ calls[Peer(e)][1].res.st = "pending"

-----------------------------------------------------------------------------
(* C39: the stream after a transfer                                        *)

\* the calls an endpoint makes in a transfer of n bytes, the stream call
\* included: an envelope and an answer for each chunk, the stream call and
\* the envelope of the empty chunk
TransferCalls(n) == 2 * ChunksOf(n) + 2

\* writeStream() of e and readStream() of its peer have both resolved
TransferDone(e) ==
    /\ Transfer(e)
    /\ StreamResolved(e)
    /\ StreamResolved(Peer(e))

\* the calls e made after the transfer
After(e, n) == {j \in Calls(e) : j > TransferCalls(n)}

\* C39: once writeStream() and the peer's readStream() have both resolved,
\* every envelope and answer sent has been read and no byte is left in
\* either direction; a write() and a read() that follow on the two
\* endpoints exchange a datagram: the read() resolves with what that
\* write() was given.
C39_CleanAfterTransfer ==
    \A e \in Endpoints :
        TransferDone(e) =>
            LET n == Len(calls[e][1].F)
            IN /\ (After(e, n) = {} /\ After(Peer(e), n) = {}) =>
                      /\ wire[e] = <<>>
                      /\ wire[Peer(e)] = <<>>
                      /\ Len(calls[e]) = TransferCalls(n)
                      /\ Len(calls[Peer(e)]) = TransferCalls(n)
                      /\ \A p \in {e, Peer(e)} : \A j \in Calls(p) :
                             calls[p][j].pc \in {"done", "past"}
               /\ \A p \in {e, Peer(e)} : \A j \in After(p, n) :
                      /\ (calls[p][j].kind = "write" /\ calls[p][j].pc = "done") =>
                             calls[p][j].res.st = "ok"
                      /\ (calls[p][j].kind = "read" /\ calls[p][j].pc = "done") =>
                             /\ calls[p][j].res.st = "ok"
                             /\ calls[p][j].src.whole
                             /\ calls[p][j].src.w \in After(Peer(p), n)
                             /\ calls[p][j].res.v = calls[p][j].src.B
                             /\ calls[p][j].res.v \in Afterwards.payloads

\* after a transfer of three bytes the receiver wrote a datagram and the
\* sender's read() resolved with it
C39_Witness ==
    \E e \in Endpoints :
        /\ TransferDone(e)
        /\ calls[e][1].F = FileContent
        /\ Len(calls[e]) = TransferCalls(3) + 1
        /\ calls[e][Len(calls[e])].kind = "read"
        /\ calls[e][Len(calls[e])].res.st = "ok"
        /\ calls[e][Len(calls[e])].res.v = <<1, 2>>
        /\ calls[Peer(e)][Len(calls[Peer(e)])].kind = "write"

-----------------------------------------------------------------------------
(* C40: datagrams between version 2.x and a version before 2.0, without    *)
(* compression                                                             *)

\* read() j of e has settled on the frame of a write() of its peer
ReadOfDatagram(e, j) ==
    /\ calls[e][j].kind = "read"
    /\ calls[e][j].pc = "done"
    /\ calls[e][j].src.w # 0

\* that read() resolved with the payload the write() was given
ReadBackIdentical(e, j) ==
    /\ calls[e][j].res.st = "ok"
    /\ calls[e][j].src.whole
    /\ calls[e][j].res.v = calls[e][j].src.B

\* C40: with compression off on both sides and the same password on both,
\* every datagram written by the implementation before 2.0 is read back
\* identical by 2.x, and every datagram written by 2.x is read back
\* identical by the implementation before 2.0.
C40_CrossVersion ==
    \A e \in Endpoints : \A j \in Calls(e) :
        (ReadOfDatagram(e, j) /\ password["c"] = password["s"]) => ReadBackIdentical(e, j)

\* the direction that works: what the client of before 2.0 wrote, the
\* server of 2.x reads back identical
OldToNewIdentical ==
    \A j \in Calls("s") : ReadOfDatagram("s", j) => ReadBackIdentical("s", j)

\* the flag byte of the frame whose body read() i of e is about to take
FlagRead(e, i) ==
    createDecipher(calls[e][i].pwd[1], Vals(Take(wire[e], calls[e][i].n)))[1]

\* as coded: the reader of before 2.0 rejects a datagram of 2.x that is not
\* compressed when its random flag byte is 1, and reads every other back
\* identical
NewToOldUnlessFlagOne ==
    [][\A i \in Calls("c") :
          (At("c", i, "r_data") /\ calls'["c"][i].pc = "done") =>
              IF FlagRead("c", i) = 1
              THEN calls'["c"][i].res.st = "err"
              ELSE /\ calls'["c"][i].res.st = "ok"
                   /\ calls'["c"][i].res.v = calls'["c"][i].src.B]_vars

\* a datagram of 2.x, written without compression, was rejected by the
\* reader of before 2.0
UncompressedRejected ==
    \E j \in Calls("c") :
        /\ ReadOfDatagram("c", j)
        /\ calls["c"][j].res.st = "err"
        /\ calls["c"][j].src.B = <<1, 2>>

=============================================================================
